---- MODULE Spec2Model ----
(***************************************************************************)
(* Model of the import pipeline of book-tts-vni: parser.ts (parseFile,     *)
(* parseEpub, parsePdf, splitIntoChapters), the import handler of the Home *)
(* screen (handleFileChange) and db.ts (addBook).                          *)
(*                                                                         *)
(* Texts are sequences of one-character strings.  A character stands for   *)
(* its class in the source's regular expressions:                          *)
(*   "K"        a heading keyword (Chương|Chapter|Hồi|Quyển|Book|Phần|...) *)
(*   "1" "2"    a digit (\d)                                               *)
(*   "X"        a letter of [IVXLCDM] (the regex carries the i flag)       *)
(*   "a" "b"    any other visible character                                *)
(*   " "        a blank ([ \t])                                            *)
(*   "\n"       the newline                                                *)
(*   ":"        a separator of [:\-\.] that ends no sentence               *)
(*   "."        a separator of [:\-\.] that is also one of [,\.!?;]        *)
(* Offsets are the 0-based offsets of JavaScript strings.                  *)
(***************************************************************************)
EXTENDS Integers, Sequences, FiniteSets, TLC

VARIABLES
    sPc,        \* splitIntoChapters call: "ready" | "done"
    sText,      \* its text argument
    sOut,       \* what the call produced
    pPc,        \* text reconstruction of one PDF page: "ready" | "done"
    pItems,     \* textContent.items of the page
    pOut,       \* the order after the sort and what is pushed before each item
    pc,             \* where handleFileChange / parseFile is suspended
    file,           \* the File handed to parseFile
    aborted,        \* controller.signal.aborted
    progressLog,    \* the calls of the caller's onProgress, in order
    outcome,        \* how the parseFile promise settled
    batchStart,     \* 0-based index of the first unit of the batch in flight
    pending,        \* units of the batch whose promise has not settled
    batchResults,   \* values of the settled promises of the batch
    completionOrder,\* the order in which the promises of the last batch settled
    chapters,       \* parseEpub: chapters
    chapterNum,     \* parseEpub: chapterNum
    pagesText,      \* parsePdf: pagesText
    ncxLoaded,      \* parseEpub: chapterTitles was filled from the NCX
    alertShown,     \* handleFileChange showed the error alert
    books,          \* object store 'books'
    chapterStore,   \* object store 'chapters'
    newChapters,    \* handleFileChange: newChapters, handed to addBook
    saveIndex,      \* addBook: i of the batch loop
    nextId,         \* source of crypto.randomUUID()
    bookChapters,           \* Reader: chapters.length
    bookParagraphs,         \* paragraphs of each chapter's stored content
    currentChapterIndex,    \* Reader: state currentChapterIndex
    loadedChapters,         \* Reader: the chapters with an entry in loadedChapters
    loadingChaptersRef,     \* Reader: chapters whose getChapter is in flight
    isSpeaking,             \* Reader: state isSpeaking
    currentParagraphIndex,  \* Reader: state currentParagraphIndex
    autoAdvanceRef,         \* Reader: autoAdvanceRef.current
    rendered,               \* Reader: the state the last commit was rendered from
    listeners,              \* the 'ttsCommand' listeners registered with the plugin
    intents,                \* intents sent to TtsBackgroundService, not yet handled
    broadcasts,             \* broadcasts of the service, not yet delivered
    service,                \* fields of TtsBackgroundService
    taps,                   \* taps of the user on the Reader and the notification so far
    speechRate,             \* Reader: state speechRate, as its place in SPEED_OPTIONS
    syncFlush,              \* Reader: an event handler left updates that are rendered
                            \* before anything else runs
    finishedLast,           \* history: 'chapter_finished' found no next chapter, and
                            \* the user has not pressed play since
    inflight,               \* db: calls of updateBookProgress and updateBookCover
                            \* between their get and their put
    deleted                 \* history: the ids whose deleteBook has completed

splitVars == <<sPc, sText, sOut>>
pageVars == <<pPc, pItems, pOut>>
parseVars == <<pc, file, aborted, progressLog, outcome, batchStart, pending,
               batchResults, completionOrder, chapters, chapterNum, pagesText,
               ncxLoaded, alertShown>>
dbVars == <<books, chapterStore, newChapters, saveIndex, nextId>>
readerVars == <<bookChapters, bookParagraphs, currentChapterIndex, loadedChapters,
                loadingChaptersRef, isSpeaking, currentParagraphIndex,
                autoAdvanceRef, rendered, listeners, intents, broadcasts, service,
                taps, speechRate, syncFlush, finishedLast>>
libVars == <<inflight, deleted>>
vars == <<splitVars, pageVars, parseVars, dbVars, readerVars, libVars>>

----------------------------------------------------------------------------
(* Bounds of the model *)

\* longest text enumerated character by character
MaxLen == 4
\* most lines of a text assembled from LineShapes
MaxLines == 3
\* most pages of a PDF
MaxPages == 3
\* most spine entries of an EPUB
MaxSpine == 3
\* most fragments of a page
MaxItems == 2
\* most chapters of the book open in the Reader
MaxChapters == 2
\* most paragraphs of a chapter
MaxParagraphs == 2
\* most 'ttsCommand' listeners registered at once
MaxListeners == 2
\* most intents waiting for the service
MaxIntents == 3
\* most broadcasts waiting for delivery
MaxBroadcasts == 2
\* most taps of the user on the Reader and the notification
MaxTaps == 2
\* most text items of a page of closely spaced baselines
MaxClose == 3
\* most books in the library
MaxBooks == 2
\* most calls of updateBookProgress and updateBookCover in flight
MaxInflight == 2
\* const SPEED_OPTIONS = [0.5, 0.75, 1.0, 1.25, 1.5, 2.0]: its length, and the
\* place of the rate 1.0 that useState starts from when none was saved
SPEED_OPTIONS_LENGTH == 6
DEFAULT_RATE == 2
\* pages per batch of parsePdf (const BATCH_SIZE = 50, scaled to the model)
BATCH_SIZE == 2
\* spine entries per batch of parseEpub (const EPUB_BATCH = 10, scaled)
EPUB_BATCH == 2
\* chapters per transaction of addBook (const BATCH_SIZE = 500, scaled)
DB_BATCH_SIZE == 2

----------------------------------------------------------------------------
(* Constants of parser.ts *)

\* ([^\n]{0,100}) in chapterRegex
SUBTITLE_CAP == 100
\* chapterSubtitle.length <= 80
TITLE_SUBTITLE_MAX == 80
\* Math.abs(a.transform[5] - b.transform[5]) > 4
SAME_LINE_TOLERANCE == 4
\* yDiff > fontHeight * 1.4, in tenths
PARAGRAPH_RATIO == 14
\* yDiff > fontHeight * 0.4, in tenths
LINE_RATIO == 4
\* gap > fontHeight * 0.3, in tenths
SPACE_RATIO == 3

FALLBACK_TITLE == <<"Noi dung">>      \* 'Nội dung'
PROLOGUE_TITLE == <<"Mo dau">>        \* 'Mở đầu'

----------------------------------------------------------------------------
(* Character classes *)

IsKeyword(c) == c = "K"
IsDigit(c) == c \in {"1", "2"}
IsRoman(c) == c = "X"
IsBlank(c) == c \in {" ", "\t"}
IsSepPunct(c) == c \in {":", "-", "."}
\* \s
IsWs(c) == c \in {" ", "\t", "\n", "\r"}
\* [,\.!?;]
IsSentenceEnd(c) == c \in {",", ".", "!", "?", ";"}

MinOf(a, b) == IF a < b THEN a ELSE b
MaxOf(a, b) == IF a > b THEN a ELSE b

----------------------------------------------------------------------------
(* String primitives of JavaScript *)

CharAt(t, o) == t[o + 1]

\* String.prototype.substring: both ends clamped to [0, length], swapped
\* when start > end
Substring(t, s, e) ==
    LET cs == MinOf(MaxOf(s, 0), Len(t))
        ce == MinOf(MaxOf(e, 0), Len(t))
    IN  SubSeq(t, MinOf(cs, ce) + 1, MaxOf(cs, ce))

RECURSIVE TrimStart(_)
TrimStart(t) ==
    IF t # <<>> /\ IsWs(Head(t)) THEN TrimStart(Tail(t)) ELSE t

RECURSIVE TrimEnd(_)
TrimEnd(t) ==
    IF t # <<>> /\ IsWs(t[Len(t)]) THEN TrimEnd(SubSeq(t, 1, Len(t) - 1)) ELSE t

\* String.prototype.trim
Trim(t) == TrimEnd(TrimStart(t))

\* the least of a non-empty set of offsets
Least(S) == CHOOSE x \in S : \A y \in S : x <= y

\* the offsets at or after from that hold a newline
NewlinesFrom(t, from) == {o \in from..(Len(t) - 1) : CharAt(t, o) = "\n"}

\* text.indexOf('\n', from); -1 when there is none
IndexOfNewline(t, from) ==
    IF NewlinesFrom(t, from) = {} THEN -1 ELSE Least(NewlinesFrom(t, from))

\* fullMatch.replace(/^[\n\r]+/, '')
RECURSIVE StripLeadingNewlines(_)
StripLeadingNewlines(t) ==
    IF t # <<>> /\ Head(t) \in {"\n", "\r"} THEN StripLeadingNewlines(Tail(t)) ELSE t

----------------------------------------------------------------------------
(* chapterRegex:                                                            *)
(* (?:^|\n)[ \t]*(?:KEYWORD)[ \t]*[:\-\.]?[ \t]*(\d+|[IVXLCDM]+)            *)
(*          (?:[ \t]*[:\-\.\s][ \t]*([^\n]{0,100}))?   with flags g, i      *)

RECURSIVE SkipBlanks(_, _)
SkipBlanks(t, o) ==
    IF o < Len(t) /\ IsBlank(CharAt(t, o)) THEN SkipBlanks(t, o + 1) ELSE o

RECURSIVE SkipDigits(_, _)
SkipDigits(t, o) ==
    IF o < Len(t) /\ IsDigit(CharAt(t, o)) THEN SkipDigits(t, o + 1) ELSE o

RECURSIVE SkipRoman(_, _)
SkipRoman(t, o) ==
    IF o < Len(t) /\ IsRoman(CharAt(t, o)) THEN SkipRoman(t, o + 1) ELSE o

\* [^\n]{0,100}, greedy, tried at offset o: it runs to the end of the line
\* or of the text, and no further than cap
SubtitleEnd(t, o, cap) ==
    IF NewlinesFrom(t, o) = {} THEN MinOf(Len(t), cap)
    ELSE MinOf(Least(NewlinesFrom(t, o)), cap)

\* where the numeral (\d+|[IVXLCDM]+) tried at offset d ends; d without one
NumeralEnd(t, d) ==
    IF d < Len(t) /\ IsDigit(CharAt(t, d)) THEN SkipDigits(t, d)
    ELSE IF d < Len(t) /\ IsRoman(CharAt(t, d)) THEN SkipRoman(t, d)
    ELSE d

\* [:\-\.]? tried at offset b
OptionalSep(t, b) ==
    IF b < Len(t) /\ IsSepPunct(CharAt(t, b)) THEN b + 1 ELSE b

\* the keyword found at a and the numeral at [d, e)
CoreAt(t, a, d, e) ==
    IF a < Len(t) /\ IsKeyword(CharAt(t, a)) /\ e > d
    THEN [ok |-> TRUE, numStart |-> d, numEnd |-> e]
    ELSE [ok |-> FALSE, numStart |-> 0, numEnd |-> 0]

CoreNumeral(t, a, d) == CoreAt(t, a, d, NumeralEnd(t, d))

CoreKeyword(t, a) ==
    CoreNumeral(t, a, SkipBlanks(t, OptionalSep(t, SkipBlanks(t, a + 1))))

\* [ \t]*KEYWORD[ \t]*[:\-\.]?[ \t]*(\d+|[IVXLCDM]+) tried at offset r.
\* Every quantifier is greedy and what follows each can start with none of
\* the characters it consumes, so the first path of the backtracking search
\* is the only one that can succeed.
HeadingCore(t, r) == CoreKeyword(t, SkipBlanks(t, r))

\* the separator [:\-\.\s] of the subtitle group, e the end of the numeral
\* and g the end of the greedy blank run after it: the character at g when
\* it is one of [:\-\.] or a newline (\s); otherwise the run gives back its
\* last blank, which \s takes; with no blank to give back there is none (-1)
SeparatorAt(t, e, g) ==
    IF g < Len(t) /\ (IsSepPunct(CharAt(t, g)) \/ IsWs(CharAt(t, g))) THEN g
    ELSE IF g > e THEN g - 1
    ELSE -1

\* [ \t]*([^\n]{0,100}) after the separator
GroupSubtitle(t, h) ==
    [has |-> TRUE, subStart |-> h, end |-> SubtitleEnd(t, h, h + SUBTITLE_CAP)]

GroupWithSep(t, e, sepAt) ==
    IF sepAt = -1 THEN [has |-> FALSE, subStart |-> e, end |-> e]
    ELSE GroupSubtitle(t, SkipBlanks(t, sepAt + 1))

\* (?:[ \t]*[:\-\.\s][ \t]*([^\n]{0,100}))? tried at offset e; without a
\* separator the group does not take part in the match
SubtitleGroup(t, e) == GroupWithSep(t, e, SeparatorAt(t, e, SkipBlanks(t, e)))

NoMatch(p) ==
    [ok |-> FALSE, index |-> p, end |-> p,
     numStart |-> 0, numEnd |-> 0, hasSub |-> FALSE, subStart |-> 0]

MatchRecord(p, core, grp) ==
    [ok |-> TRUE, index |-> p, end |-> grp.end,
     numStart |-> core.numStart, numEnd |-> core.numEnd,
     hasSub |-> grp.has, subStart |-> grp.subStart]

MatchCore(t, p, core) ==
    IF core.ok THEN MatchRecord(p, core, SubtitleGroup(t, core.numEnd))
    ELSE NoMatch(p)

\* alternative \n of (?:^|\n) at offset p
MatchAfterNewline(t, p) ==
    IF p < Len(t) /\ CharAt(t, p) = "\n" THEN MatchCore(t, p, HeadingCore(t, p + 1))
    ELSE NoMatch(p)

\* alternative ^ at offset 0, then alternative \n
MatchAtStart(t, core) ==
    IF core.ok THEN MatchCore(t, 0, core) ELSE MatchAfterNewline(t, 0)

\* the whole pattern tried at offset p
MatchAt(t, p) ==
    IF p = 0 THEN MatchAtStart(t, HeadingCore(t, 0)) ELSE MatchAfterNewline(t, p)

\* chapterRegex.exec(text) with lastIndex: the leftmost match at or after it
RECURSIVE Exec(_, _)
ExecFrom(t, lastIndex, m) ==
    IF m.ok \/ lastIndex >= Len(t) THEN m ELSE Exec(t, lastIndex + 1)

Exec(t, lastIndex) == ExecFrom(t, lastIndex, MatchAt(t, lastIndex))

\* falsePositivePattern: ^[ \t]*(?:Chương trình|Chương mục|Phần lớn|...),
\* a keyword, one space and the second word of the compound; the second
\* word is letters, the first of them possibly one of [IVXLCDM] (lớn, mục)
FalsePositive(tm) ==
    LET s == SkipBlanks(tm, 0)
    IN  /\ s + 2 < Len(tm)
        /\ IsKeyword(CharAt(tm, s))
        /\ CharAt(tm, s + 1) = " "
        /\ \/ CharAt(tm, s + 2) = "a"
           \/ /\ s + 3 < Len(tm)
              /\ CharAt(tm, s + 2) = "X"
              /\ CharAt(tm, s + 3) = "a"

----------------------------------------------------------------------------
(* splitIntoChapters *)

\* trimmedMatch.match(/^(Chương|Chapter|...)/i)
KeywordOf(trimmedMatch) ==
    IF trimmedMatch # <<>> /\ IsKeyword(Head(trimmedMatch))
    THEN <<Head(trimmedMatch)>> ELSE <<>>

\* match[2]?.trim() || ''
SubtitleOf(t, m) ==
    IF m.hasSub THEN Trim(Substring(t, m.subStart, m.end)) ELSE <<>>

\* `${keyword} ${chapterNumber}`, with `: ${chapterSubtitle}` when the
\* subtitle is not empty, does not end a sentence and has at most 80 characters
TitleOfAnyLength(keyword, chapterNumber, chapterSubtitle) ==
    IF /\ chapterSubtitle # <<>>
       /\ ~IsSentenceEnd(chapterSubtitle[Len(chapterSubtitle)])
    THEN keyword \o <<" ">> \o chapterNumber \o <<":", " ">> \o chapterSubtitle
    ELSE keyword \o <<" ">> \o chapterNumber

TitleOf(keyword, chapterNumber, chapterSubtitle) ==
    IF /\ chapterSubtitle # <<>>
       /\ ~IsSentenceEnd(chapterSubtitle[Len(chapterSubtitle)])
       /\ Len(chapterSubtitle) <= TITLE_SUBTITLE_MAX
    THEN keyword \o <<" ">> \o chapterNumber \o <<":", " ">> \o chapterSubtitle
    ELSE keyword \o <<" ">> \o chapterNumber

\* lineEndIndex !== -1 ? lineEndIndex + 1 : match.index + fullMatch.length
ContentStartOf(m, fullMatch, lineEndIndex) ==
    IF lineEndIndex # -1 THEN lineEndIndex + 1 ELSE m.index + Len(fullMatch)

\* ChapterMatchFields skipping a match whose subtitle is empty as well
ChapterMatchFieldsSubtitled(t, m, fullMatch, trimmedMatch, matchStart) ==
    [skip |-> \/ FalsePositive(trimmedMatch)
              \/ Len(trimmedMatch) = 0
              \/ SubtitleOf(t, m) = <<>>,
     rec |-> [index |-> ContentStartOf(m, fullMatch, IndexOfNewline(t, matchStart)),
              matchStart |-> matchStart,
              title |-> Trim(TitleOf(KeywordOf(trimmedMatch),
                                     Substring(t, m.numStart, m.numEnd),
                                     SubtitleOf(t, m)))]]

ChapterMatchFields(t, m, fullMatch, trimmedMatch, matchStart) ==
    [skip |-> FalsePositive(trimmedMatch) \/ Len(trimmedMatch) = 0,
     rec |-> [index |-> ContentStartOf(m, fullMatch, IndexOfNewline(t, matchStart)),
              matchStart |-> matchStart,
              title |-> Trim(TitleOf(KeywordOf(trimmedMatch),
                                     Substring(t, m.numStart, m.numEnd),
                                     SubtitleOf(t, m)))]]

\* stripped is fullMatch.replace(/^[\n\r]+/, ''); matchStart is match.index
\* + leadingNewlineLen
ChapterMatchStripped(t, m, fullMatch, stripped) ==
    ChapterMatchFields(t, m, fullMatch, Trim(stripped),
                       m.index + (Len(fullMatch) - Len(stripped)))

ChapterMatchFull(t, m, fullMatch) ==
    ChapterMatchStripped(t, m, fullMatch, StripLeadingNewlines(fullMatch))

\* the body of the while loop for one match m of chapterRegex.exec: the
\* ChapterMatch it pushes, or skip when the loop continues without pushing
ChapterMatchOf(t, m) == ChapterMatchFull(t, m, Substring(t, m.index, m.end))

ScanPush(acc, cm) == IF cm.skip THEN acc ELSE Append(acc, cm.rec)

\* while ((match = chapterRegex.exec(text)) !== null) { ... }
RECURSIVE ScanFrom(_, _, _, _)
ScanStep(t, signalAborted, acc, m) ==
    IF ~m.ok THEN [aborted |-> FALSE, matches |-> acc]
    ELSE IF signalAborted THEN [aborted |-> TRUE, matches |-> acc]
    ELSE ScanFrom(t, m.end, signalAborted, ScanPush(acc, ChapterMatchOf(t, m)))

ScanFrom(t, lastIndex, signalAborted, acc) ==
    ScanStep(t, signalAborted, acc, Exec(t, lastIndex))

\* ascending order of a set of offsets
RECURSIVE SortAscending(_)
SortAscending(keys) ==
    IF keys = {} THEN <<>>
    ELSE LET k == CHOOSE x \in keys : \A y \in keys : x <= y
         IN  <<k>> \o SortAscending(keys \ {k})

\* the last entry of allMatches with matchStart k
LastWith(allMatches, k) ==
    allMatches[CHOOSE i \in DOMAIN allMatches :
                  /\ allMatches[i].matchStart = k
                  /\ \A j \in DOMAIN allMatches :
                        allMatches[j].matchStart = k => j <= i]

UniqueByKeys(allMatches, keys) ==
    [n \in 1..Len(keys) |-> LastWith(allMatches, keys[n])]

\* Array.from(new Map(allMatches.map(m => [m.matchStart, m])).values())
\*   .sort((a, b) => a.matchStart - b.matchStart):
\* one entry per matchStart, the last one pushed, ascending
UniqueMatches(allMatches) ==
    UniqueByKeys(allMatches,
                 SortAscending({allMatches[i].matchStart : i \in DOMAIN allMatches}))

\* Prologue pushed whenever there is a first match
PrologueAlways(text, uniqueMatches) ==
    <<[title |-> PROLOGUE_TITLE,
       content |-> Trim(Substring(text, 0, uniqueMatches[1].matchStart))]>>

\* Prologue with the text before the first heading as it stands
PrologueUntrimmed(text, uniqueMatches) ==
    IF uniqueMatches[1].matchStart > 0
    THEN <<[title |-> PROLOGUE_TITLE,
            content |-> Substring(text, 0, uniqueMatches[1].matchStart)]>>
    ELSE <<>>

\* the prologue pushed before the chapters, if any
Prologue(text, uniqueMatches) ==
    LET prologue == Trim(Substring(text, 0, uniqueMatches[1].matchStart))
    IN  IF uniqueMatches[1].matchStart > 0 /\ Len(prologue) > 0
        THEN <<[title |-> PROLOGUE_TITLE, content |-> prologue]>>
        ELSE <<>>

\* ChapterOf slicing from the heading line itself up to the next body
ChapterOfOverlapping(text, uniqueMatches, i) ==
    LET m == uniqueMatches[i]
        endIndex == IF i < Len(uniqueMatches) THEN uniqueMatches[i + 1].index
                    ELSE Len(text)
    IN  [title |-> m.title, content |-> Trim(Substring(text, m.matchStart, endIndex))]

\* the chapter pushed for uniqueMatches[i]
ChapterOf(text, uniqueMatches, i) ==
    LET m == uniqueMatches[i]
        endIndex == IF i < Len(uniqueMatches) THEN uniqueMatches[i + 1].matchStart
                    ELSE Len(text)
    IN  [title |-> m.title, content |-> Trim(Substring(text, m.index, endIndex))]

\* FallbackChapters trimming the text like every other chapter
FallbackChaptersTrimmed(text) == <<[title |-> FALLBACK_TITLE, content |-> Trim(text)]>>

\* the zero-match return
FallbackChapters(text) == <<[title |-> FALLBACK_TITLE, content |-> text]>>

\* splitIntoChapters from `// Remove duplicates and sort` to its return
SliceChapters(text, uniqueMatches) ==
    [kind |-> "ok",
     chapters |-> Prologue(text, uniqueMatches)
                    \o [i \in 1..Len(uniqueMatches) |-> ChapterOf(text, uniqueMatches, i)],
     matches |-> uniqueMatches,
     progress |-> <<50, 100>>]

\* splitIntoChapters after the scan
SplitFromScan(text, signalAborted, scan) ==
    IF scan.aborted
    THEN [kind |-> "aborted", chapters |-> <<>>,
          matches |-> scan.matches, progress |-> <<>>]
    ELSE IF Len(scan.matches) = 0
    THEN [kind |-> "ok", chapters |-> FallbackChapters(text),
          matches |-> scan.matches, progress |-> <<50>>]
    ELSE IF signalAborted
    THEN [kind |-> "aborted", chapters |-> <<>>,
          matches |-> scan.matches, progress |-> <<50>>]
    ELSE SliceChapters(text, UniqueMatches(scan.matches))

\* splitIntoChapters(text, onProgress, signal): the outcome, the chapters,
\* the matches of the scan and the percent values handed to onProgress
SplitIntoChapters(text, signalAborted) ==
    SplitFromScan(text, signalAborted, ScanFrom(text, 0, signalAborted, <<>>))

----------------------------------------------------------------------------
(* The texts splitIntoChapters is applied to *)

Alphabet == {"K", "1", "X", "a", " ", "\n", ":", "."}

SeqsUpTo(S, n) == UNION {[1..k -> S] : k \in 0..n}

LineShapes ==
    { <<"K", "1">>,                       \* Chapter 1
      <<"K", " ", "1", ":", " ", "a">>,   \* Chapter 1: The Beginning
      <<"K", "2", " ", "b">>,             \* Chapter2 The Journey
      <<"K", "a">>,                       \* Chapterhouse
      <<"a">>,                            \* a body line
      <<" ", "b", ".">>,                  \* an indented sentence
      <<>> }                              \* a blank line

RECURSIVE JoinLines(_)
JoinLines(ls) ==
    IF Len(ls) = 0 THEN <<>>
    ELSE IF Len(ls) = 1 THEN ls[1]
    ELSE ls[1] \o <<"\n">> \o JoinLines(Tail(ls))

\* 'Chapter 1: The Beginning', a blank line, a body paragraph,
\* 'Chapter 2: The Journey'
ExampleText ==
    <<"K", " ", "1", ":", " ", "a", "\n", "\n", "a", " ", "b", ".", "\n",
      "K", " ", "2", ":", " ", "b">>

\* 'Chapter 1: ' and a subtitle of n characters
LongHeading(n) == <<"K", " ", "1", ":", " ">> \o [i \in 1..n |-> "a"]

\* headings whose subtitle is as long as a title takes, one longer, and
\* longer than the subtitle group captures
LongTexts ==
    {LongHeading(n) : n \in {TITLE_SUBTITLE_MAX, TITLE_SUBTITLE_MAX + 1,
                             SUBTITLE_CAP + 1}}

Texts ==
    SeqsUpTo(Alphabet, MaxLen)
      \cup {JoinLines(ls) : ls \in SeqsUpTo(LineShapes, MaxLines)}
      \cup {ExampleText}
      \cup LongTexts


----------------------------------------------------------------------------
(* The files handed to parseFile *)

\* a spine entry: st says what reading it gives, label whether the NCX has
\* a navPoint for its href, own what the file itself offers as a title:
\* a title element ("title"), a first h1/h2 ("h"), both, or a title element
\* whose trimmed text has 100 characters or more, alone or with a heading
UnitKinds ==
    {[st |-> "ok", label |-> TRUE, own |-> "title"],
     [st |-> "ok", label |-> FALSE, own |-> "title"],
     [st |-> "ok", label |-> FALSE, own |-> "h"],
     [st |-> "ok", label |-> FALSE, own |-> "none"],
     [st |-> "ok", label |-> FALSE, own |-> "both"],          \* a title element and a heading
     [st |-> "ok", label |-> FALSE, own |-> "longtitle"],     \* a title element of 100 characters or more
     [st |-> "ok", label |-> FALSE, own |-> "longboth"],      \* such a title element and a heading
     [st |-> "short", label |-> FALSE, own |-> "none"],       \* under 10 characters
     [st |-> "nomanifest", label |-> FALSE, own |-> "none"],  \* idref not in the manifest
     [st |-> "absent", label |-> FALSE, own |-> "none"],      \* file not in the archive
     [st |-> "readerr", label |-> FALSE, own |-> "none"]}     \* async('text') rejects

\* a page: ok says whether getPage / getTextContent succeed
PageKinds ==
    {[ok |-> TRUE, text |-> <<"a">>],
     [ok |-> TRUE, text |-> <<"K", " ", "1", ":", " ", "a">>],
     [ok |-> FALSE, text |-> <<>>]}

TxtTexts ==
    {<<>>, <<" ", "a", "\n">>, <<"K", " ", "1", ":", " ", "a", "\n", "b">>, ExampleText}

BlankFile ==
    [kind |-> "txt", text |-> <<>>, openOk |-> TRUE, pages |-> <<>>,
     zipOk |-> TRUE, container |-> "ok", opf |-> "ok", nav |-> "undeclared",
     spine |-> <<>>]

TxtFiles == {[BlankFile EXCEPT !.text = t] : t \in TxtTexts}

PdfFiles ==
    {[BlankFile EXCEPT !.kind = "pdf", !.openOk = FALSE]}
      \cup {[BlankFile EXCEPT !.kind = "pdf", !.pages = ps] :
                ps \in SeqsUpTo(PageKinds, MaxPages) \ {<<>>}}

OneOk == <<[st |-> "ok", label |-> FALSE, own |-> "none"]>>

EpubFiles ==
    {[BlankFile EXCEPT !.kind = "epub", !.spine = OneOk, !.zipOk = FALSE],
     [BlankFile EXCEPT !.kind = "epub", !.spine = OneOk, !.container = "missing"],
     [BlankFile EXCEPT !.kind = "epub", !.spine = OneOk, !.container = "norootfile"],
     [BlankFile EXCEPT !.kind = "epub", !.spine = OneOk, !.opf = "missing"],
     [BlankFile EXCEPT !.kind = "epub", !.spine = OneOk, !.nav = "badhref"],
     [BlankFile EXCEPT !.kind = "epub"]}
      \cup {[BlankFile EXCEPT !.kind = "epub", !.nav = n, !.spine = sp] :
                n \in {"undeclared", "missing", "present"},
                sp \in SeqsUpTo(UnitKinds, MaxSpine) \ {<<>>}}

Files == TxtFiles \cup PdfFiles \cup EpubFiles

----------------------------------------------------------------------------
(* parseFile, parseEpub, parsePdf *)

ABORTED == "Aborted"
NO_CONTAINER == "Invalid EPUB: missing container.xml"
NO_ROOTFILE == "Invalid EPUB: cannot find rootfile"
NO_OPF == "Invalid EPUB: missing OPF file"
NO_SPINE == "Invalid EPUB: no spine items found"
EMPTY_EPUB == "EPUB khong co noi dung"
\* errors thrown by the libraries and the runtime
ZIP_ERROR == "JSZip.loadAsync rejected"
READ_ERROR == "async('text') rejected"
URI_ERROR == "URIError"
PDF_OPEN_ERROR == "getDocument rejected"
PAGE_ERROR == "getPage/getTextContent rejected"

\* Math.round(num / den) for num >= 0, den > 0
Round(num, den) == (2 * num + den) \div (2 * den)

\* parsePdf: (i - 1) / numPages * 100 passed through parseFile's wrapper
\* Math.round(p * 0.5); i is the 1-based first page of the batch
PdfBatchPercentUnscaled(i, numPages) == Round((i - 1) * 100, numPages)

PdfBatchPercent(i, numPages) == Round((i - 1) * 100, 2 * numPages)

\* parseEpub: Math.round((batchEnd / spineItems.length) * 90)
EpubBatchPercent(batchEnd, n) == Round(batchEnd * 90, n)

\* parseFile's wrapper around the onProgress of splitIntoChapters:
\* Math.round(base + p * multiplier), base 50 and multiplier 0.5 for a PDF
SplitPercent(p, isPdf) == IF isPdf THEN Round(2 * 50 + p, 2) ELSE Round(p, 1)

\* one call of the caller's onProgress; late records that the signal was
\* already raised when the call was made
Call(percent) == [percent |-> percent, late |-> aborted]

Null == [null |-> TRUE, title |-> <<>>, content |-> <<>>]
NoResult == [title |-> "", chapters |-> <<>>]
NoOutcome == [kind |-> "none", error |-> "", aborted |-> FALSE, result |-> NoResult]

\* file.name.replace(/\.[^/.]+$/, '') and the dc:title of the OPF
FILE_TITLE == "name"
BOOK_TITLE == "dc:title"

\* what step 3 of parseEpub does about the NCX
NcxStepRequired(nav) ==
    IF nav = "present" THEN "read" ELSE IF nav = "undeclared" THEN "skip" ELSE "throw"

NcxStep(nav) ==
    IF nav = "badhref" THEN "throw"        \* decodeURIComponent(ncxItem[1])
    ELSE IF nav = "present" THEN "read"
    ELSE "skip"                            \* not declared, or zip.file(ncxPath) is null

\* ChTitle with the first h1 or h2 looked up before the title element
ChTitleFromHeadingFirst(u, j, ncx) ==
    IF ncx /\ u.label THEN <<"ncx", j>>
    ELSE IF u.own \in {"h", "both", "longboth"} THEN <<"h", j>>
    ELSE IF u.own = "title" THEN <<"title", j>>
    ELSE <<>>

\* chTitle of spine entry j: the NCX label of its href, else the title
\* element when its trimmed text has 1 to 99 characters, else the first h1
\* or h2, else '' (the empty sequence)
ChTitle(u, j, ncx) ==
    IF ncx /\ u.label THEN <<"ncx", j>>
    ELSE IF u.own \in {"title", "both"} THEN <<"title", j>>
    ELSE IF u.own \in {"h", "longboth"} THEN <<"h", j>>
    ELSE <<>>

\* UnitResult without the minimum of 10 characters
UnitResultNoMinimum(j, ncx) ==
    LET u == file.spine[j]
    IN  IF u.st \notin {"ok", "short"} THEN Null
        ELSE [null |-> FALSE,
              title |-> ChTitle(u, j, ncx),
              content |-> <<"text", j>>]

\* the value of the async function of parseEpub for spine entry j (1-based)
UnitResult(j, ncx) ==
    LET u == file.spine[j]
    IN  IF u.st # "ok" THEN Null
        ELSE [null |-> FALSE,
              title |-> ChTitle(u, j, ncx),
              content |-> <<"text", j>>]

\* the values of Promise.all as pushed in the order the promises settled
PromiseAllByCompletion(results, first, n, order) ==
    [k \in 1..Len(order) |-> results[order[k]]]

\* await Promise.all(batchPromises): the values in the order of the promises
PromiseAll(results, first, n, order) ==
    [k \in 1..n |-> results[first + k]]

\* for (const result of batchResults) if (result) { chapterNum++; chapters.push(...) }
RECURSIVE PushResults(_, _, _)
PushResults(results, chs, num) ==
    IF results = <<>> THEN [chapters |-> chs, chapterNum |-> num]
    ELSE IF Head(results).null THEN PushResults(Tail(results), chs, num)
    ELSE PushResults(Tail(results),
                     Append(chs, [title |-> IF Head(results).title # <<>>
                                            THEN Head(results).title
                                            ELSE <<"Chuong", num + 1>>,
                                  content |-> Head(results).content]),
                     num + 1)

\* pagesText.join('\n\n')
RECURSIVE JoinPages(_)
JoinPages(ps) ==
    IF Len(ps) = 0 THEN <<>>
    ELSE IF Len(ps) = 1 THEN ps[1]
    ELSE ps[1] \o <<"\n", "\n">> \o JoinPages(Tail(ps))

LocalsReset ==
    /\ batchStart' = 0
    /\ pending' = {}
    /\ batchResults' = <<>>
    /\ chapters' = <<>>
    /\ chapterNum' = 0
    /\ pagesText' = <<>>
    /\ ncxLoaded' = FALSE

\* parseFile rejects; handleFileChange's catch and finally run
Reject(err, log) ==
    /\ outcome' = [kind |-> "rejected", error |-> err, aborted |-> aborted,
                   result |-> NoResult]
    /\ progressLog' = log
    /\ alertShown' = (err # ABORTED)
    /\ pc' = "idle"
    /\ LocalsReset
    /\ UNCHANGED <<file, aborted, completionOrder, dbVars>>

\* handleFileChange after parseFile resolved: newChapters with order = index
\* and a fresh id each
NewChaptersOneBased(result, firstId) ==
    [i \in 1..Len(result.chapters) |->
        [id |-> firstId + i, bookId |-> firstId,
         title |-> result.chapters[i].title,
         content |-> result.chapters[i].content,
         order |-> i]]

NewChapters(result, firstId) ==
    [i \in 1..Len(result.chapters) |->
        [id |-> firstId + i, bookId |-> firstId,
         title |-> result.chapters[i].title,
         content |-> result.chapters[i].content,
         order |-> i - 1]]

\* parseFile resolves; handleFileChange builds newBook and newChapters and
\* calls addBook, which suspends on db.put('books', bookWithToc)
Resolve(result, log) ==
    /\ outcome' = [kind |-> "resolved", error |-> "", aborted |-> aborted,
                   result |-> result]
    /\ progressLog' = log
    /\ pc' = "add_book"
    /\ newChapters' = NewChapters(result, nextId)
    /\ nextId' = nextId + Len(result.chapters) + 1
    /\ saveIndex' = 0
    /\ LocalsReset
    /\ UNCHANGED <<file, aborted, completionOrder, alertShown, books, chapterStore>>

\* parseFile from the progress call before splitIntoChapters to its return
FinishSplit(split, isPdf, log) ==
    IF split.kind = "aborted"
    THEN Reject(ABORTED,
                log \o [k \in DOMAIN split.progress |->
                           Call(SplitPercent(split.progress[k], isPdf))])
    ELSE Resolve([title |-> FILE_TITLE, chapters |-> split.chapters],
                 log \o [k \in DOMAIN split.progress |->
                            Call(SplitPercent(split.progress[k], isPdf))]
                     \o <<Call(100)>>)

\* parseFile from `if (signal?.aborted)` after the text is there, to its return
FinishFlatUnchecked(text, isPdf, log) ==
    FinishSplit(SplitIntoChapters(text, FALSE), isPdf,
                Append(log, Call(IF isPdf THEN 50 ELSE 0)))

FinishFlat(text, isPdf, log) ==
    IF aborted THEN Reject(ABORTED, log)
    ELSE FinishSplit(SplitIntoChapters(text, aborted), isPdf,
                     Append(log, Call(IF isPdf THEN 50 ELSE 0)))

\* handleFileChange: a file is chosen, parseFile runs to its first await
StartImport(f) ==
    /\ pc = "idle"
    /\ outcome.kind = "none"
    /\ file' = f
    /\ aborted' = FALSE
    /\ progressLog' = <<[percent |-> 0, late |-> FALSE]>>
    /\ pc' = CASE f.kind = "epub" -> "epub_open"
               [] f.kind = "pdf" -> "pdf_open"
               [] OTHER -> "txt_read"
    /\ UNCHANGED <<outcome, batchStart, pending, batchResults, completionOrder,
                   chapters, chapterNum, pagesText, ncxLoaded, alertShown, dbVars>>

\* parseFile is suspended on an operation that takes a task of its own, so
\* that a click can be dispatched before it resumes
Yielding ==
    \/ pc \in {"epub_open", "epub_container", "epub_opf", "epub_ncx",
               "pdf_open", "txt_read"}
    \/ pc \in {"epub_batch", "pdf_batch"} /\ pending # {}
    \/ pc \in {"add_book", "add_chapters"}

\* the user picks a file in the file input of the Home screen
HandleFileChange ==
    /\ pc = "idle"
    /\ outcome.kind = "none"
    /\ \E f \in Files : StartImport(f)

\* the Cancel button: abortController.abort()
Abort ==
    /\ Yielding
    /\ ~aborted
    /\ aborted' = TRUE
    /\ UNCHANGED <<pc, file, progressLog, outcome, batchStart, pending,
                   batchResults, completionOrder, chapters, chapterNum,
                   pagesText, ncxLoaded, alertShown, dbVars>>

\* file.text() resolved
TxtRead ==
    /\ pc = "txt_read"
    /\ FinishFlat(file.text, FALSE, progressLog)

\* parseEpub: the for loop from the test of i (0-based) to the next await
EpubLoopFrom(i, chs, num, log, ncx) ==
    LET n == Len(file.spine)
        batchEnd == MinOf(i + EPUB_BATCH, n)
        batch == (i + 1)..batchEnd
    IN  IF i >= n
        THEN IF Len(chs) = 0 THEN Reject(EMPTY_EPUB, log)
             ELSE Resolve([title |-> BOOK_TITLE, chapters |-> chs],
                          Append(log, Call(100)))
        ELSE IF aborted THEN Reject(ABORTED, log)
        ELSE /\ pc' = "epub_batch"
             /\ batchStart' = i
             /\ pending' = {j \in batch : file.spine[j].st \in {"ok", "short", "readerr"}}
             /\ batchResults' = [j \in batch |-> Null]
             /\ completionOrder' = <<>>
             /\ chapters' = chs
             /\ chapterNum' = num
             /\ progressLog' = log
             /\ ncxLoaded' = ncx
             /\ UNCHANGED <<file, aborted, outcome, pagesText, alertShown, dbVars>>

\* file.arrayBuffer() and JSZip.loadAsync resolved or rejected; container.xml
\* is looked up
EpubOpened ==
    /\ pc = "epub_open"
    /\ IF ~file.zipOk THEN Reject(ZIP_ERROR, progressLog)
       ELSE IF aborted THEN Reject(ABORTED, progressLog)
       ELSE IF file.container = "missing" THEN Reject(NO_CONTAINER, progressLog)
       ELSE /\ pc' = "epub_container"
            /\ UNCHANGED <<file, aborted, progressLog, outcome, batchStart, pending,
                           batchResults, completionOrder, chapters, chapterNum,
                           pagesText, ncxLoaded, alertShown, dbVars>>

\* container.xml read; the OPF is looked up
EpubContainerRead ==
    /\ pc = "epub_container"
    /\ IF file.container = "norootfile" THEN Reject(NO_ROOTFILE, progressLog)
       ELSE IF file.opf = "missing" THEN Reject(NO_OPF, progressLog)
       ELSE /\ pc' = "epub_opf"
            /\ UNCHANGED <<file, aborted, progressLog, outcome, batchStart, pending,
                           batchResults, completionOrder, chapters, chapterNum,
                           pagesText, ncxLoaded, alertShown, dbVars>>

\* the OPF read: manifest, spine, then the NCX if there is one to read
EpubOpfRead ==
    /\ pc = "epub_opf"
    /\ IF Len(file.spine) = 0 THEN Reject(NO_SPINE, progressLog)
       ELSE IF NcxStep(file.nav) = "throw"
       THEN Reject(IF file.nav = "badhref" THEN URI_ERROR ELSE NO_OPF, progressLog)
       ELSE IF NcxStep(file.nav) = "read"
       THEN /\ pc' = "epub_ncx"
            /\ UNCHANGED <<file, aborted, progressLog, outcome, batchStart, pending,
                           batchResults, completionOrder, chapters, chapterNum,
                           pagesText, ncxLoaded, alertShown, dbVars>>
       ELSE EpubLoopFrom(0, <<>>, 0, progressLog, FALSE)

\* the NCX read: chapterTitles filled, the first batch started
EpubNcxRead ==
    /\ pc = "epub_ncx"
    /\ EpubLoopFrom(0, <<>>, 0, progressLog, TRUE)

\* one read of the batch settles; a rejection rejects Promise.all at once
EpubUnitDone(j) ==
    /\ pc = "epub_batch"
    /\ j \in pending
    /\ IF file.spine[j].st = "readerr" THEN Reject(READ_ERROR, progressLog)
       ELSE /\ batchResults' = [batchResults EXCEPT ![j] = UnitResult(j, ncxLoaded)]
            /\ pending' = pending \ {j}
            /\ completionOrder' = Append(completionOrder, j)
            /\ UNCHANGED <<pc, file, aborted, progressLog, outcome, batchStart,
                           chapters, chapterNum, pagesText, ncxLoaded, alertShown,
                           dbVars>>

\* Promise.all resolved: fan-in, progress, then the loop goes on or ends
EpubBatchJoin ==
    /\ pc = "epub_batch"
    /\ pending = {}
    /\ LET n == Len(file.spine)
           batchEnd == MinOf(batchStart + EPUB_BATCH, n)
           joined == PromiseAll(batchResults, batchStart, batchEnd - batchStart,
                                completionOrder)
           pushed == PushResults(joined, chapters, chapterNum)
       IN  EpubLoopFrom(batchStart + EPUB_BATCH, pushed.chapters, pushed.chapterNum,
                        Append(progressLog, Call(EpubBatchPercent(batchEnd, n))),
                        ncxLoaded)

\* parsePdf: the for loop from the test of i (1-based) to the next await;
\* past the last page parsePdf returns into parseFile
PdfLoopFrom(i, pages, log) ==
    LET numPages == Len(file.pages)
        batchEnd == MinOf(i + BATCH_SIZE - 1, numPages)
    IN  IF i > numPages THEN FinishFlat(JoinPages(pages), TRUE, log)
        ELSE IF aborted THEN Reject(ABORTED, log)
        ELSE /\ pc' = "pdf_batch"
             /\ batchStart' = i - 1
             /\ pending' = i..batchEnd
             /\ batchResults' = [j \in i..batchEnd |-> <<>>]
             /\ completionOrder' = <<>>
             /\ pagesText' = pages
             /\ progressLog' = Append(log, Call(PdfBatchPercent(i, numPages)))
             /\ UNCHANGED <<file, aborted, outcome, chapters, chapterNum, ncxLoaded,
                            alertShown, dbVars>>

\* file.arrayBuffer() and getDocument settled
PdfOpened ==
    /\ pc = "pdf_open"
    /\ IF ~file.openOk THEN Reject(PDF_OPEN_ERROR, progressLog)
       ELSE PdfLoopFrom(1, <<>>, progressLog)

\* one page of the batch settles; a rejection rejects Promise.all at once
PdfPageDone(j) ==
    /\ pc = "pdf_batch"
    /\ j \in pending
    /\ IF ~file.pages[j].ok THEN Reject(PAGE_ERROR, progressLog)
       ELSE /\ batchResults' = [batchResults EXCEPT ![j] = file.pages[j].text]
            /\ pending' = pending \ {j}
            /\ completionOrder' = Append(completionOrder, j)
            /\ UNCHANGED <<pc, file, aborted, progressLog, outcome, batchStart,
                           chapters, chapterNum, pagesText, ncxLoaded, alertShown,
                           dbVars>>

\* Promise.all resolved: pagesText[i + j - 1] = batchResults[j], next batch
PdfBatchJoin ==
    /\ pc = "pdf_batch"
    /\ pending = {}
    /\ LET numPages == Len(file.pages)
           batchEnd == MinOf(batchStart + BATCH_SIZE, numPages)
           joined == PromiseAll(batchResults, batchStart, batchEnd - batchStart,
                                completionOrder)
       IN  PdfLoopFrom(batchStart + 1 + BATCH_SIZE, pagesText \o joined, progressLog)

----------------------------------------------------------------------------
(* addBook *)

\* db.put('books', bookWithToc) done
AddBookPut ==
    /\ pc = "add_book"
    /\ books' = books \cup
         {[id |-> newChapters[1].bookId,
           title |-> outcome.result.title,
           chapterCount |-> Len(newChapters),
           toc |-> [i \in DOMAIN newChapters |->
                       [id |-> newChapters[i].id, title |-> newChapters[i].title,
                        order |-> newChapters[i].order]]]}
    /\ pc' = "add_chapters"
    /\ UNCHANGED <<file, aborted, progressLog, outcome, batchStart, pending,
                   batchResults, completionOrder, chapters, chapterNum, pagesText,
                   ncxLoaded, alertShown, chapterStore, newChapters, saveIndex,
                   nextId>>

\* one transaction of chapters done; after the last one loadBooks and the
\* finally block of handleFileChange run
AddChapterBatch ==
    /\ pc = "add_chapters"
    /\ LET last == MinOf(saveIndex + DB_BATCH_SIZE, Len(newChapters))
       IN  /\ chapterStore' = chapterStore \cup
                  {newChapters[i] : i \in (saveIndex + 1)..last}
           /\ saveIndex' = saveIndex + DB_BATCH_SIZE
           /\ pc' = IF saveIndex + DB_BATCH_SIZE < Len(newChapters)
                    THEN "add_chapters" ELSE "idle"
    /\ UNCHANGED <<file, aborted, progressLog, outcome, batchStart, pending,
                   batchResults, completionOrder, chapters, chapterNum, pagesText,
                   ncxLoaded, alertShown, books, newChapters, nextId>>

----------------------------------------------------------------------------
(* parsePdf: the text of one page, from the items of getTextContent *)

\* Coordinates are integers; a threshold k/10 of the font height is compared
\* as 10 * value > k * fontHeight.

\* a text item: x is transform[4], y is transform[5] (the baseline), h is
\* transform[3] (the font height), w is width
Baselines == {-20, -1, 0, 5, 20}
Items == [x : {0, 1, 3, 5}, y : Baselines, w : {0, 2}, h : {0, 10}]

\* items of one size on baselines 3 and 2 apart, for pages of up to
\* MaxClose items
CloseItems == [x : {0, 1, 3}, y : {0, 3, 5}, w : {2}, h : {10}]

Abs(n) == IF n < 0 THEN 0 - n ELSE n

\* the comparator handed to sort
CompareItems(a, b) ==
    IF Abs(a.y - b.y) > SAME_LINE_TOLERANCE THEN b.y - a.y ELSE a.x - b.x

\* the orders in which n items can be arranged
Orders(n) == Permutations(1..n)

\* the permutations that put the items in the order of the comparator,
\* equal items in their original order
SortedOrders(items) ==
    {f \in Orders(Len(items)) :
        \A i, j \in 1..Len(items) :
            i < j => \/ CompareItems(items[f[i]], items[f[j]]) < 0
                     \/ /\ CompareItems(items[f[i]], items[f[j]]) = 0
                        /\ f[i] < f[j]}

\* items.sort(comparator): the one sorted order when the comparator orders
\* these items consistently; otherwise the order is implementation-defined
SortOutcomes(items) ==
    IF SortedOrders(items) # {} THEN SortedOrders(items)
    ELSE Orders(Len(items))

\* what is pushed to parts before item.str; lastY and lastX are -1 before
\* the first item
SeparatorBefore(item, lastY, lastX) ==
    IF lastY = -1 THEN ""
    ELSE IF 10 * Abs(item.y - lastY) > PARAGRAPH_RATIO * item.h THEN "\n\n"
    ELSE IF 10 * Abs(item.y - lastY) > LINE_RATIO * item.h THEN "\n"
    ELSE IF 10 * (item.x - lastX) > SPACE_RATIO * item.h THEN " "
    ELSE ""

\* for (const item of items) { ... }: the separators pushed before the
\* items, in the order of the loop
RECURSIVE WalkItems(_, _, _, _)
WalkItems(sorted, lastY, lastX, acc) ==
    IF sorted = <<>> THEN acc
    ELSE WalkItems(Tail(sorted), Head(sorted).y, Head(sorted).x + Head(sorted).w,
                   Append(acc, SeparatorBefore(Head(sorted), lastY, lastX)))

\* the callback of pdf.getPage(pageNum).then for one outcome of the sort
PageText(items, order) ==
    [order |-> order,
     parts |-> WalkItems([k \in 1..Len(items) |-> items[order[k]]], -1, -1, <<>>)]

----------------------------------------------------------------------------
(* The Reader screen and TtsBackgroundService *)

\* The Reader is modelled from the commit that follows loadBookData's
\* setChapters and setCurrentChapterIndex.  A state setter takes effect at
\* once on the state variable; what a closure sees is the value of the last
\* commit, kept in rendered (a listener keeps the index of its own commit).
\* An await on a plugin call is not a yield of the model: the calls of one
\* async function are appended to intents in one step.

Command(c) == [kind |-> "command", command |-> c, index |-> -1]
Progress(i) == [kind |-> "progress", command |-> "", index |-> i]
Intent(a, n, i) == [action |-> a, paragraphs |-> n, startIndex |-> i]

Unrendered == [index |-> -1, loaded |-> {}, paragraph |-> -1, speaking |-> FALSE,
               rate |-> DEFAULT_RATE, mounted |-> FALSE]

\* a new instance of the service, before onCreate
NewService == [alive |-> FALSE, ttsReady |-> FALSE, pendingSpeak |-> FALSE,
               paragraphs |-> 0, currentIndex |-> -1, isPlaying |-> FALSE,
               isPaused |-> FALSE, utterance |-> -1]

\* what a method of the service leaves: its fields and what it broadcast
Left(s, out) == [svc |-> s, out |-> out]

\* speakCurrentParagraph; processContent hands over no empty paragraph
SpeakCurrentParagraph(s) ==
    IF ~s.ttsReady \/ s.currentIndex < 0 \/ s.currentIndex >= s.paragraphs
    THEN Left(s, <<>>)
    ELSE Left([s EXCEPT !.utterance = s.currentIndex], <<Progress(s.currentIndex)>>)

OnChapterFinished(s) ==
    Left([s EXCEPT !.isPlaying = FALSE, !.currentIndex = -1, !.paragraphs = 0],
         <<Command("chapter_finished")>>)

OnParagraphDone(s) ==
    IF ~s.isPlaying \/ s.isPaused THEN Left(s, <<>>)
    ELSE IF s.currentIndex + 1 >= s.paragraphs
         THEN OnChapterFinished([s EXCEPT !.currentIndex = s.currentIndex + 1])
         ELSE SpeakCurrentParagraph([s EXCEPT !.currentIndex = s.currentIndex + 1])

\* pauseSpeaking of the service
ServicePause(s) ==
    IF ~s.isPlaying THEN Left(s, <<>>)
    ELSE Left([s EXCEPT !.isPaused = TRUE, !.utterance = -1], <<Command("paused")>>)

\* fullStop: stopSelf destroys the instance
FullStop(s) == Left(NewService, <<Command("stop")>>)

SetParagraphs(s, intent) ==
    IF intent.paragraphs > 0
    THEN IF s.ttsReady
         THEN SpeakCurrentParagraph([s EXCEPT !.paragraphs = intent.paragraphs,
                                              !.currentIndex = intent.startIndex,
                                              !.isPlaying = TRUE,
                                              !.isPaused = FALSE])
         ELSE Left([s EXCEPT !.paragraphs = intent.paragraphs,
                             !.currentIndex = intent.startIndex,
                             !.isPlaying = TRUE,
                             !.isPaused = FALSE,
                             !.pendingSpeak = TRUE], <<>>)
    ELSE Left(s, <<>>)

SetRate(s) ==
    IF s.isPlaying /\ ~s.isPaused /\ s.ttsReady
    THEN SpeakCurrentParagraph([s EXCEPT !.utterance = -1])
    ELSE Left(s, <<>>)

\* onStartCommand of a running instance
OnStartCommand(s, intent) ==
    CASE intent.action = "setParagraphs" -> SetParagraphs(s, intent)
      [] intent.action = "pause" -> ServicePause(s)
      [] intent.action = "stop" -> FullStop(s)
      [] intent.action = "setRate" -> SetRate(s)
      [] intent.action = "mediaNext" -> Left(s, <<Command("next")>>)
      [] intent.action = "mediaPrev" -> Left(s, <<Command("prev")>>)
      [] OTHER -> Left(s, <<>>)

\* onInit with status SUCCESS
OnInit(s) ==
    IF s.pendingSpeak /\ s.paragraphs > 0
    THEN SpeakCurrentParagraph([s EXCEPT !.ttsReady = TRUE, !.pendingSpeak = FALSE])
    ELSE Left([s EXCEPT !.ttsReady = TRUE], <<>>)

\* loadedChapters[chapter.id] is truthy: the entry is there and not ''
ContentReady(c, loaded) == c \in loaded /\ bookParagraphs[c] > 0

InRange(c) == c >= 0 /\ c < bookChapters

\* loadChapterContent(c) goes on to getChapter
NeedsLoad(c) ==
    /\ InRange(c)
    /\ ~ContentReady(c, loadedChapters)
    /\ c \notin loadingChaptersRef

\* the effect on [currentChapterIndex, book, chapters, loadChapterContent]
LoadRequests ==
    IF NeedsLoad(currentChapterIndex) THEN {currentChapterIndex}
    ELSE {c \in {currentChapterIndex - 1, currentChapterIndex + 1} : NeedsLoad(c)}

\* cleanup of the listener effect: a handle is removed only when its promise
\* has resolved; then the effect registers the listener of this commit
Reregister(ls) ==
    LET kept == SelectSeq(ls, LAMBDA l : ~(l.current /\ l.resolved))
    IN  [k \in 1..Len(kept) |-> [kept[k] EXCEPT !.current = FALSE]]
        \o <<[index |-> currentChapterIndex, resolved |-> FALSE, current |-> TRUE]>>

\* the effects of one commit, in the order of the source
Render ==
    LET first == ~rendered.mounted
        indexChanged == first \/ rendered.index # currentChapterIndex
        loadedChanged == first \/ rendered.loaded # loadedChapters
        paragraphChanged == first \/ rendered.paragraph # currentParagraphIndex
        speakingChanged == first \/ rendered.speaking # isSpeaking
        rateChanged == first \/ rendered.rate # speechRate
        \* useEffect(..., [speechRate, isSpeaking])
        rate == IF (speakingChanged \/ rateChanged) /\ isSpeaking
                THEN <<Intent("setRate", 0, 0)>> ELSE <<>>
        \* useEffect(..., [currentChapterIndex])
        stops == indexChanged /\ ~autoAdvanceRef /\ isSpeaking
        stop == IF stops THEN <<Intent("stop", 0, 0)>> ELSE <<>>
        \* useEffect(..., [chapters, currentChapterIndex, loadedChapters, speechRate])
        advances == /\ indexChanged \/ loadedChanged \/ rateChanged
                    /\ autoAdvanceRef
                    /\ InRange(currentChapterIndex)
                    /\ ContentReady(currentChapterIndex, loadedChapters)
        advance == IF advances
                   THEN <<Intent("setRate", 0, 0),
                          Intent("setParagraphs", bookParagraphs[currentChapterIndex], 0)>>
                   ELSE <<>>
        \* useEffect(..., [startSpeaking])
        listens == indexChanged \/ loadedChanged \/ paragraphChanged \/ rateChanged
    IN  /\ \/ first
           \/ indexChanged \/ loadedChanged \/ paragraphChanged \/ speakingChanged
           \/ rateChanged \/ syncFlush
        /\ syncFlush' = FALSE
        /\ rendered' = [index |-> currentChapterIndex, loaded |-> loadedChapters,
                        paragraph |-> currentParagraphIndex, speaking |-> isSpeaking,
                        rate |-> speechRate, mounted |-> TRUE]
        /\ loadingChaptersRef' =
               IF indexChanged \/ loadedChanged
               THEN loadingChaptersRef \cup LoadRequests ELSE loadingChaptersRef
        /\ intents' = intents \o rate \o stop \o advance
        /\ Len(intents') <= MaxIntents
        /\ currentParagraphIndex' = IF indexChanged THEN -1 ELSE currentParagraphIndex
        /\ isSpeaking' = IF advances THEN TRUE
                         ELSE IF stops THEN FALSE ELSE isSpeaking
        /\ autoAdvanceRef' = IF advances THEN FALSE ELSE autoAdvanceRef
        /\ listeners' = IF listens THEN Reregister(listeners) ELSE listeners
        /\ Len(listeners') <= MaxListeners
        /\ UNCHANGED <<bookChapters, bookParagraphs, currentChapterIndex,
                       loadedChapters, broadcasts, service, taps, speechRate, finishedLast>>

\* .then((l) => { cmdListener = l; }) of the listener of the last commit
ListenerResolved ==
    /\ ~syncFlush
    /\ \E k \in 1..Len(listeners) :
           /\ listeners[k].current
           /\ ~listeners[k].resolved
           /\ listeners' = [listeners EXCEPT ![k].resolved = TRUE]
    /\ UNCHANGED <<bookChapters, bookParagraphs, currentChapterIndex, loadedChapters,
                   loadingChaptersRef, isSpeaking, currentParagraphIndex,
                   autoAdvanceRef, rendered, intents, broadcasts, service, taps, speechRate, syncFlush, finishedLast>>

\* getChapter resolved in loadChapterContent
LoadDone(c) ==
    /\ ~syncFlush
    /\ c \in loadingChaptersRef
    /\ loadedChapters' = loadedChapters \cup {c}
    /\ loadingChaptersRef' = loadingChaptersRef \ {c}
    /\ UNCHANGED <<bookChapters, bookParagraphs, currentChapterIndex, isSpeaking,
                   currentParagraphIndex, autoAdvanceRef, rendered, listeners,
                   intents, broadcasts, service, taps, speechRate, syncFlush, finishedLast>>

\* startSpeaking as the last commit built it
StartSpeaking ==
    /\ InRange(rendered.index)
    /\ ContentReady(rendered.index, rendered.loaded)
    /\ intents' = intents \o
           <<Intent("start", 0, 0), Intent("setRate", 0, 0),
             Intent("setParagraphs", bookParagraphs[rendered.index],
                    IF rendered.paragraph >= 0 THEN rendered.paragraph ELSE 0)>>
    /\ isSpeaking' = TRUE
    /\ UNCHANGED autoAdvanceRef

\* pauseSpeaking of the Reader
PauseSpeaking ==
    /\ autoAdvanceRef' = FALSE
    /\ intents' = Append(intents, Intent("pause", 0, 0))
    /\ isSpeaking' = FALSE

\* the user taps the play / pause button: toggleSpeaking
ToggleSpeaking ==
    /\ ~syncFlush
    /\ rendered.mounted
    /\ taps < MaxTaps
    /\ taps' = taps + 1
    /\ IF rendered.speaking THEN PauseSpeaking ELSE StartSpeaking
    /\ finishedLast' = (rendered.speaking /\ finishedLast)
    /\ Len(intents') <= MaxIntents
    /\ UNCHANGED <<bookChapters, bookParagraphs, currentChapterIndex, loadedChapters,
                   loadingChaptersRef, currentParagraphIndex, rendered, listeners,
                   broadcasts, service, speechRate, syncFlush>>

\* a tap of the user on a control of the last commit
Tap ==
    /\ ~syncFlush
    /\ rendered.mounted
    /\ taps < MaxTaps
    /\ taps' = taps + 1

\* the user taps the next-chapter button: handleNextChapter of the last commit
HandleNextChapter ==
    /\ Tap
    /\ currentChapterIndex' = IF rendered.index < bookChapters - 1
                              THEN currentChapterIndex + 1 ELSE currentChapterIndex
    /\ UNCHANGED <<bookChapters, bookParagraphs, loadedChapters, loadingChaptersRef,
                   isSpeaking, currentParagraphIndex, autoAdvanceRef, rendered,
                   listeners, intents, broadcasts, service, speechRate, finishedLast>>
    /\ syncFlush' = TRUE

\* the user taps the previous-chapter button: handlePrevChapter
HandlePrevChapter ==
    /\ Tap
    /\ currentChapterIndex' = IF rendered.index > 0
                              THEN currentChapterIndex - 1 ELSE currentChapterIndex
    /\ UNCHANGED <<bookChapters, bookParagraphs, loadedChapters, loadingChaptersRef,
                   isSpeaking, currentParagraphIndex, autoAdvanceRef, rendered,
                   listeners, intents, broadcasts, service, speechRate, finishedLast>>
    /\ syncFlush' = TRUE

\* the user taps entry idx of the table of contents
SelectChapter(idx) ==
    /\ Tap
    /\ idx \in 0..(bookChapters - 1)
    /\ currentChapterIndex' = idx
    /\ UNCHANGED <<bookChapters, bookParagraphs, loadedChapters, loadingChaptersRef,
                   isSpeaking, currentParagraphIndex, autoAdvanceRef, rendered,
                   listeners, intents, broadcasts, service, speechRate, finishedLast>>
    /\ syncFlush' = TRUE

\* the user taps the speed button: cycleSpeed
CycleSpeed ==
    /\ Tap
    /\ speechRate' = (speechRate + 1) % SPEED_OPTIONS_LENGTH
    /\ UNCHANGED <<bookChapters, bookParagraphs, currentChapterIndex, loadedChapters,
                   loadingChaptersRef, isSpeaking, currentParagraphIndex,
                   autoAdvanceRef, rendered, listeners, intents, broadcasts, service,
                   finishedLast>>
    /\ syncFlush' = TRUE

\* the user taps the stop button: fullStopSpeaking
FullStopSpeaking ==
    /\ Tap
    /\ autoAdvanceRef' = FALSE
    /\ intents' = Append(intents, Intent("stop", 0, 0))
    /\ Len(intents') <= MaxIntents
    /\ isSpeaking' = FALSE
    /\ currentParagraphIndex' = -1
    /\ UNCHANGED <<bookChapters, bookParagraphs, currentChapterIndex, loadedChapters,
                   loadingChaptersRef, rendered, listeners, broadcasts, service,
                   speechRate, syncFlush, finishedLast>>

\* handleNextChapter in every registered listener: the guard reads the index
\* of the listener's commit, the update is prev => prev + 1
NextChapterCalls(ls) ==
    Cardinality({k \in 1..Len(ls) : ls[k].index < bookChapters - 1})

\* handlePrevChapter in every registered listener: the guard reads the index
\* of the listener's commit, the update is prev => prev - 1
PrevChapterCalls(ls) ==
    Cardinality({k \in 1..Len(ls) : ls[k].index > 0})

\* the plugin's receiver passes a broadcast of the service to the listeners
Deliver ==
    /\ ~syncFlush
    /\ broadcasts # <<>>
    /\ broadcasts' = Tail(broadcasts)
    /\ IF listeners = <<>>
       THEN UNCHANGED <<currentChapterIndex, isSpeaking, currentParagraphIndex,
                        autoAdvanceRef>>
       ELSE CASE Head(broadcasts).kind = "progress" ->
                     /\ currentParagraphIndex' = Head(broadcasts).index
                     /\ UNCHANGED <<currentChapterIndex, isSpeaking, autoAdvanceRef>>
              [] Head(broadcasts).command = "chapter_finished" ->
                     /\ currentParagraphIndex' = -1
                     /\ isSpeaking' = FALSE
                     /\ autoAdvanceRef' = TRUE
                     /\ currentChapterIndex' =
                            currentChapterIndex + NextChapterCalls(listeners)
              [] Head(broadcasts).command = "paused" ->
                     /\ isSpeaking' = FALSE
                     /\ UNCHANGED <<currentChapterIndex, currentParagraphIndex,
                                    autoAdvanceRef>>
              [] Head(broadcasts).command = "next" ->
                     /\ currentChapterIndex' =
                            currentChapterIndex + NextChapterCalls(listeners)
                     /\ UNCHANGED <<isSpeaking, currentParagraphIndex, autoAdvanceRef>>
              [] Head(broadcasts).command = "prev" ->
                     /\ currentChapterIndex' =
                            currentChapterIndex - PrevChapterCalls(listeners)
                     /\ UNCHANGED <<isSpeaking, currentParagraphIndex, autoAdvanceRef>>
              [] OTHER ->       \* 'stop'
                     /\ isSpeaking' = FALSE
                     /\ currentParagraphIndex' = -1
                     /\ UNCHANGED <<currentChapterIndex, autoAdvanceRef>>
    /\ UNCHANGED <<bookChapters, bookParagraphs, loadedChapters, loadingChaptersRef,
                   rendered, listeners, intents, service, taps, speechRate, syncFlush>>
    /\ finishedLast' =
           IF listeners # <<>> /\ Head(broadcasts).kind = "command"
                /\ Head(broadcasts).command = "chapter_finished"
           THEN /\ currentChapterIndex = bookChapters - 1
                /\ currentChapterIndex' = currentChapterIndex
           ELSE finishedLast

\* what a step of the service leaves
ServiceStep(left) ==
    /\ ~syncFlush
    /\ service' = left.svc
    /\ broadcasts' = broadcasts \o left.out
    /\ Len(broadcasts') <= MaxBroadcasts
    /\ UNCHANGED <<bookChapters, bookParagraphs, currentChapterIndex, loadedChapters,
                   loadingChaptersRef, isSpeaking, currentParagraphIndex,
                   autoAdvanceRef, rendered, listeners, speechRate, syncFlush, finishedLast>>

\* the next intent reaches the service; an intent for a stopped service
\* creates a new instance first
HandleIntent ==
    /\ intents # <<>>
    /\ intents' = Tail(intents)
    /\ ServiceStep(OnStartCommand([service EXCEPT !.alive = TRUE], Head(intents)))
    /\ UNCHANGED taps

\* the user taps next or previous on the notification of the running
\* service: onStartCommand with ACTION_MEDIA_NEXT or ACTION_MEDIA_PREV
MediaButton(a) ==
    /\ service.alive
    /\ taps < MaxTaps
    /\ taps' = taps + 1
    /\ ServiceStep(OnStartCommand(service, Intent(a, 0, 0)))
    /\ UNCHANGED intents

\* the engine created in onCreate reports that it is ready
TtsInit ==
    /\ service.alive
    /\ ~service.ttsReady
    /\ ServiceStep(OnInit(service))
    /\ UNCHANGED <<intents, taps>>

\* onDone of the utterance in progress
UtteranceDone ==
    /\ service.utterance >= 0
    /\ ServiceStep(OnParagraphDone([service EXCEPT !.utterance = -1]))
    /\ UNCHANGED <<intents, taps>>

----------------------------------------------------------------------------
(* The library: updateBookProgress, updateBookCover, deleteBook *)

\* what parseFile returned for a stored book of n chapters
LibraryResult(n) ==
    [title |-> FILE_TITLE,
     chapters |-> [i \in 1..n |-> [title |-> <<"Chuong", i>>, content |-> <<"text", i>>]]]

\* the id handleFileChange gave the k-th book, each book having n chapters
LibraryBookId(k, n) == (k - 1) * (n + 1) + 1

LibraryChapters(k, n) == NewChapters(LibraryResult(n), LibraryBookId(k, n))

\* the record of the k-th book as addBook stored it
LibraryBook(k, n) ==
    [id |-> LibraryBookId(k, n),
     title |-> FILE_TITLE,
     chapterCount |-> n,
     toc |-> [i \in 1..n |->
                 [id |-> LibraryChapters(k, n)[i].id, title |-> LibraryChapters(k, n)[i].title,
                  order |-> LibraryChapters(k, n)[i].order]],
     progress |-> 0,
     lastReadChapterId |-> 0,
     cover |-> ""]

\* the progress handleScroll reports, in percent
Progresses == {50}

\* db.get('books', bookId)
GetBook(id) == {b \in books : b.id = id}

\* db.put('books', book)
PutBook(book) == {b \in books : b.id # book.id} \cup {book}

\* updateBookProgress up to the await of db.get: the record read is kept
\* by the call; a book that is not found ends the call
UpdateBookProgressGet(id, progress) ==
    /\ Cardinality(inflight) < MaxInflight
    /\ \E b \in GetBook(id) : \E i \in DOMAIN b.toc :
           inflight' = inflight \cup
               {[op |-> "progress", book |-> b, chapterId |-> b.toc[i].id,
                 progress |-> progress]}
    /\ UNCHANGED <<parseVars, dbVars, deleted>>

\* updateBookCover up to the await of db.get
UpdateBookCoverGet(id) ==
    /\ Cardinality(inflight) < MaxInflight
    /\ \E b \in GetBook(id) :
           inflight' = inflight \cup
               {[op |-> "cover", book |-> b, chapterId |-> 0, progress |-> 0]}
    /\ UNCHANGED <<parseVars, dbVars, deleted>>

\* the rest of updateBookProgress or updateBookCover: the record read is
\* changed and put back
UpdatePut(u) ==
    /\ u \in inflight
    /\ books' = PutBook(IF u.op = "progress"
                        THEN [u.book EXCEPT !.lastReadChapterId = u.chapterId,
                                            !.progress = u.progress]
                        ELSE [u.book EXCEPT !.cover = "dataUrl"])
    /\ inflight' = inflight \ {u}
    /\ UNCHANGED <<parseVars, chapterStore, newChapters, saveIndex, nextId, deleted>>

\* deleteBook: one transaction over both stores
DeleteBook(id) ==
    /\ GetBook(id) # {}
    /\ books' = books \ GetBook(id)
    /\ chapterStore' = {ch \in chapterStore : ch.bookId # id}
    /\ deleted' = deleted \cup {id}
    /\ UNCHANGED <<parseVars, newChapters, saveIndex, nextId, inflight>>

----------------------------------------------------------------------------
(* The specifications *)

InitParse ==
    /\ pc = "idle"
    /\ file = BlankFile
    /\ aborted = FALSE
    /\ progressLog = <<>>
    /\ outcome = NoOutcome
    /\ batchStart = 0
    /\ pending = {}
    /\ batchResults = <<>>
    /\ completionOrder = <<>>
    /\ chapters = <<>>
    /\ chapterNum = 0
    /\ pagesText = <<>>
    /\ ncxLoaded = FALSE
    /\ alertShown = FALSE
    /\ books = {}
    /\ chapterStore = {}
    /\ newChapters = <<>>
    /\ saveIndex = 0
    /\ nextId = 1

InitLibraryIdle ==
    /\ inflight = {}
    /\ deleted = {}

InitReaderIdle ==
    /\ bookChapters = 0
    /\ bookParagraphs = <<>>
    /\ currentChapterIndex = 0
    /\ loadedChapters = {}
    /\ loadingChaptersRef = {}
    /\ isSpeaking = FALSE
    /\ currentParagraphIndex = -1
    /\ autoAdvanceRef = FALSE
    /\ rendered = Unrendered
    /\ listeners = <<>>
    /\ intents = <<>>
    /\ broadcasts = <<>>
    /\ service = NewService
    /\ taps = 0
    /\ speechRate = DEFAULT_RATE
    /\ syncFlush = FALSE
    /\ finishedLast = FALSE

NoOutput == [kind |-> "none", chapters |-> <<>>, matches |-> <<>>, progress |-> <<>>]

NoPage == [order |-> <<>>, parts |-> <<>>]

InitPageIdle ==
    /\ pPc = "ready"
    /\ pItems = <<>>
    /\ pOut = NoPage

InitSplit ==
    /\ sPc = "ready"
    /\ sText \in Texts
    /\ sOut = NoOutput
    /\ InitPageIdle
    /\ InitParse
    /\ InitLibraryIdle
    /\ InitReaderIdle

\* one call of splitIntoChapters; its only caller, parseFile, has just seen
\* signal.aborted false and has not yielded since
SplitCall ==
    /\ sPc = "ready"
    /\ sOut' = SplitIntoChapters(sText, FALSE)
    /\ sPc' = "done"
    /\ UNCHANGED <<sText, pageVars, parseVars, dbVars, readerVars, libVars>>

NextSplit == SplitCall

SpecSplit == InitSplit /\ [][NextSplit]_vars

\* one import from the Home screen, database empty at the start
InitPage ==
    /\ pPc = "ready"
    /\ pItems \in SeqsUpTo(Items, MaxItems) \cup SeqsUpTo(CloseItems, MaxClose)
    /\ pOut = NoPage
    /\ sPc = "ready"
    /\ sText = <<>>
    /\ sOut = NoOutput
    /\ InitParse
    /\ InitLibraryIdle
    /\ InitReaderIdle

\* the text of one page is reconstructed
PageCall ==
    /\ pPc = "ready"
    /\ \E order \in SortOutcomes(pItems) : pOut' = PageText(pItems, order)
    /\ pPc' = "done"
    /\ UNCHANGED <<pItems, splitVars, parseVars, dbVars, readerVars, libVars>>

NextPage == PageCall

SpecPage == InitPage /\ [][NextPage]_vars

Init ==
    /\ sPc = "ready"
    /\ sText = <<>>
    /\ sOut = NoOutput
    /\ InitPageIdle
    /\ InitParse
    /\ InitLibraryIdle
    /\ InitReaderIdle

Next ==
    \/ HandleFileChange /\ UNCHANGED <<splitVars, pageVars, readerVars, libVars>>
    \/ Abort /\ UNCHANGED <<splitVars, pageVars, readerVars, libVars>>
    \/ TxtRead /\ UNCHANGED <<splitVars, pageVars, readerVars, libVars>>
    \/ EpubOpened /\ UNCHANGED <<splitVars, pageVars, readerVars, libVars>>
    \/ EpubContainerRead /\ UNCHANGED <<splitVars, pageVars, readerVars, libVars>>
    \/ EpubOpfRead /\ UNCHANGED <<splitVars, pageVars, readerVars, libVars>>
    \/ EpubNcxRead /\ UNCHANGED <<splitVars, pageVars, readerVars, libVars>>
    \/ \E j \in pending : EpubUnitDone(j) /\ UNCHANGED <<splitVars, pageVars, readerVars, libVars>>
    \/ EpubBatchJoin /\ UNCHANGED <<splitVars, pageVars, readerVars, libVars>>
    \/ PdfOpened /\ UNCHANGED <<splitVars, pageVars, readerVars, libVars>>
    \/ \E j \in pending : PdfPageDone(j) /\ UNCHANGED <<splitVars, pageVars, readerVars, libVars>>
    \/ PdfBatchJoin /\ UNCHANGED <<splitVars, pageVars, readerVars, libVars>>
    \/ AddBookPut /\ UNCHANGED <<splitVars, pageVars, readerVars, libVars>>
    \/ AddChapterBatch /\ UNCHANGED <<splitVars, pageVars, readerVars, libVars>>

Spec == Init /\ [][Next]_vars

\* a book of the library opened in the Reader for the first time
InitReader ==
    /\ bookChapters \in 1..MaxChapters
    /\ bookParagraphs \in [0..(bookChapters - 1) -> 0..MaxParagraphs]
    /\ currentChapterIndex = 0
    /\ loadedChapters = {}
    /\ loadingChaptersRef = {}
    /\ isSpeaking = FALSE
    /\ currentParagraphIndex = -1
    /\ autoAdvanceRef = FALSE
    /\ rendered = Unrendered
    /\ listeners = <<>>
    /\ intents = <<>>
    /\ broadcasts = <<>>
    /\ service = NewService
    /\ taps = 0
    /\ speechRate = DEFAULT_RATE
    /\ syncFlush = FALSE
    /\ finishedLast = FALSE
    /\ sPc = "ready"
    /\ sText = <<>>
    /\ sOut = NoOutput
    /\ InitPageIdle
    /\ InitParse
    /\ InitLibraryIdle

NextReader ==
    \/ Render /\ UNCHANGED <<splitVars, pageVars, parseVars, dbVars, libVars>>
    \/ ListenerResolved /\ UNCHANGED <<splitVars, pageVars, parseVars, dbVars, libVars>>
    \/ \E c \in loadingChaptersRef :
           LoadDone(c) /\ UNCHANGED <<splitVars, pageVars, parseVars, dbVars, libVars>>
    \/ ToggleSpeaking /\ UNCHANGED <<splitVars, pageVars, parseVars, dbVars, libVars>>
    \/ HandleNextChapter /\ UNCHANGED <<splitVars, pageVars, parseVars, dbVars, libVars>>
    \/ HandlePrevChapter /\ UNCHANGED <<splitVars, pageVars, parseVars, dbVars, libVars>>
    \/ \E idx \in 0..(MaxChapters - 1) :
           SelectChapter(idx) /\ UNCHANGED <<splitVars, pageVars, parseVars, dbVars, libVars>>
    \/ CycleSpeed /\ UNCHANGED <<splitVars, pageVars, parseVars, dbVars, libVars>>
    \/ FullStopSpeaking /\ UNCHANGED <<splitVars, pageVars, parseVars, dbVars, libVars>>
    \/ \E a \in {"mediaNext", "mediaPrev"} :
           MediaButton(a) /\ UNCHANGED <<splitVars, pageVars, parseVars, dbVars, libVars>>
    \/ Deliver /\ UNCHANGED <<splitVars, pageVars, parseVars, dbVars, libVars>>
    \/ HandleIntent /\ UNCHANGED <<splitVars, pageVars, parseVars, dbVars, libVars>>
    \/ TtsInit /\ UNCHANGED <<splitVars, pageVars, parseVars, dbVars, libVars>>
    \/ UtteranceDone /\ UNCHANGED <<splitVars, pageVars, parseVars, dbVars, libVars>>

SpecReader == InitReader /\ [][NextReader]_vars

\* a library of stored books, no import running; the Reader reports
\* progress, the Home screen sets covers and deletes books
InitLibrary ==
    /\ \E n \in 1..MaxChapters : \E ks \in (SUBSET (1..MaxBooks)) \ {{}} :
          /\ books = {LibraryBook(k, n) : k \in ks}
          /\ chapterStore =
                 UNION {{LibraryChapters(k, n)[i] : i \in 1..n} : k \in ks}
          /\ nextId = LibraryBookId(MaxBooks + 1, n)
    /\ newChapters = <<>>
    /\ saveIndex = 0
    /\ pc = "idle"
    /\ file = BlankFile
    /\ aborted = FALSE
    /\ progressLog = <<>>
    /\ outcome = NoOutcome
    /\ batchStart = 0
    /\ pending = {}
    /\ batchResults = <<>>
    /\ completionOrder = <<>>
    /\ chapters = <<>>
    /\ chapterNum = 0
    /\ pagesText = <<>>
    /\ ncxLoaded = FALSE
    /\ alertShown = FALSE
    /\ InitLibraryIdle
    /\ sPc = "ready"
    /\ sText = <<>>
    /\ sOut = NoOutput
    /\ InitPageIdle
    /\ InitReaderIdle

StoredIds == {b.id : b \in books}

NextLibrary ==
    \/ \E id \in StoredIds : \E progress \in Progresses :
           UpdateBookProgressGet(id, progress) /\ UNCHANGED <<splitVars, pageVars, readerVars>>
    \/ \E id \in StoredIds :
           UpdateBookCoverGet(id) /\ UNCHANGED <<splitVars, pageVars, readerVars>>
    \/ \E u \in inflight :
           UpdatePut(u) /\ UNCHANGED <<splitVars, pageVars, readerVars>>
    \/ \E id \in StoredIds :
           DeleteBook(id) /\ UNCHANGED <<splitVars, pageVars, readerVars>>

SpecLibrary == InitLibrary /\ [][NextLibrary]_vars

\* the service driven through the methods of TtsBackgroundPlugin alone, with
\* no listener registered. startService, setRate and setParagraphs each send
\* one intent; setParagraphs rejects only a missing or empty array and
\* passes any integer startIndex on
StartIndexes == (-1)..MaxParagraphs

PluginIntents ==
    {Intent("start", 0, 0), Intent("setRate", 0, 0)}
      \cup {Intent("setParagraphs", n, i) : n \in 1..MaxParagraphs, i \in StartIndexes}

InitService ==
    /\ bookChapters = 0
    /\ bookParagraphs = <<>>
    /\ currentChapterIndex = 0
    /\ loadedChapters = {}
    /\ loadingChaptersRef = {}
    /\ isSpeaking = FALSE
    /\ currentParagraphIndex = -1
    /\ autoAdvanceRef = FALSE
    /\ rendered = Unrendered
    /\ listeners = <<>>
    /\ intents \in SeqsUpTo(PluginIntents, MaxIntents)
    /\ broadcasts = <<>>
    /\ service = NewService
    /\ taps = 0
    /\ speechRate = DEFAULT_RATE
    /\ syncFlush = FALSE
    /\ finishedLast = FALSE
    /\ sPc = "ready"
    /\ sText = <<>>
    /\ sOut = NoOutput
    /\ InitPageIdle
    /\ InitParse
    /\ InitLibraryIdle

ServiceHandleIntent == HandleIntent /\ UNCHANGED <<splitVars, pageVars, parseVars, dbVars, libVars>>
ServiceTtsInit == TtsInit /\ UNCHANGED <<splitVars, pageVars, parseVars, dbVars, libVars>>
ServiceUtteranceDone == UtteranceDone /\ UNCHANGED <<splitVars, pageVars, parseVars, dbVars, libVars>>
ServiceDeliver == Deliver /\ UNCHANGED <<splitVars, pageVars, parseVars, dbVars, libVars>>

NextService ==
    \/ ServiceHandleIntent
    \/ ServiceTtsInit
    \/ ServiceUtteranceDone
    \/ ServiceDeliver

\* every intent is handled, the engine initialises, every utterance
\* completes and every broadcast is received
SpecServiceFair ==
    /\ InitService
    /\ [][NextService]_vars
    /\ WF_vars(ServiceHandleIntent)
    /\ WF_vars(ServiceTtsInit)
    /\ WF_vars(ServiceUtteranceDone)
    /\ WF_vars(ServiceDeliver)

----------------------------------------------------------------------------
(* Properties of splitIntoChapters, checked under SpecSplit *)

RECURSIVE Concat(_)
Concat(ss) == IF ss = <<>> THEN <<>> ELSE Head(ss) \o Concat(Tail(ss))

Contents(chs) == [i \in DOMAIN chs |-> chs[i].content]

\* least offset >= from at which c occurs in t, -1 when there is none
RECURSIVE FindFrom(_, _, _)
FindFrom(t, c, from) ==
    IF from + Len(c) > Len(t) THEN -1
    ELSE IF SubSeq(t, from + 1, from + Len(c)) = c THEN from
    ELSE FindFrom(t, c, from + 1)

\* the strings cs occur in t one after the other without overlapping
RECURSIVE OccurInOrder(_, _, _)
OccurInOrder(t, cs, from) ==
    \/ cs = <<>>
    \/ LET o == FindFrom(t, Head(cs), from)
       IN  o # -1 /\ OccurInOrder(t, Tail(cs), o + Len(Head(cs)))

\* offset just after the first newline at or after o; Len(t) without one
AfterLine(t, o) ==
    LET n == IndexOfNewline(t, o) IN IF n = -1 THEN Len(t) ELSE n + 1

StartsWithHeading ==
    /\ sPc = "done"
    /\ Len(sOut.matches) > 0
    /\ sOut.matches[1].matchStart = 0

\* where heading i's own text ends: after its line's newline, or, on a last
\* line without newline, where the matched heading text ends
BodyStart(i) ==
    IF IndexOfNewline(sText, sOut.matches[i].matchStart) # -1
    THEN AfterLine(sText, sOut.matches[i].matchStart)
    ELSE sOut.matches[i].index

NextHeadingStart(i) ==
    IF i < Len(sOut.matches) THEN sOut.matches[i + 1].matchStart ELSE Len(sText)

\* C2 (as stated): the chapter contents concatenated in order are the text
C2_PartitionExact ==
    sPc = "done" => Concat(Contents(sOut.chapters)) = sText

\* C2 (amended): the chapter contents are pieces of the text that occur in it
\* in chapter order without overlapping, so no character is repeated; they
\* concatenate to the whole text when no boundary was found
C2_DisjointPiecesInOrder ==
    sPc = "done" =>
        /\ OccurInOrder(sText, Contents(sOut.chapters), 0)
        /\ Len(sOut.matches) = 0 => Concat(Contents(sOut.chapters)) = sText

\* C2 witness: a split into two non-empty chapters that leaves characters out
C2_Witness ==
    /\ sPc = "done"
    /\ Len(sOut.chapters) >= 2
    /\ \A i \in DOMAIN sOut.chapters : sOut.chapters[i].content # <<>>
    /\ Concat(Contents(sOut.chapters)) # sText

\* C6: a scan without candidates returns one chapter, the fallback title
\* over the whole text, unchanged
C6_NoBoundaryOneChapter ==
    (sPc = "done" /\ Len(sOut.matches) = 0) =>
        /\ Len(sOut.chapters) = 1
        /\ sOut.chapters[1].title = FALLBACK_TITLE
        /\ sOut.chapters[1].content = sText

\* C6 witness: no candidate in a text that a trim would change
C6_Witness ==
    /\ sPc = "done"
    /\ Len(sOut.matches) = 0
    /\ sText # <<>>
    /\ Trim(sText) # sText
    /\ sOut.chapters[1].content = sText

\* C8 (as stated): with a heading first, chapter i is everything between
\* heading line i and heading line i + 1
C8_ContentIsEverythingBetween ==
    StartsWithHeading =>
        /\ Len(sOut.chapters) = Len(sOut.matches)
        /\ \A i \in DOMAIN sOut.chapters :
              sOut.chapters[i].content =
                  SubSeq(sText, AfterLine(sText, sOut.matches[i].matchStart) + 1,
                         NextHeadingStart(i))

\* C8 (amended): with a heading first there is one chapter per detected
\* heading, in text order and titled by it, whose content is the text from
\* the end of heading i to the start of heading i + 1 with the whitespace at
\* both ends removed; the example text gives the two example titles
C8_TrimmedBetweenHeadings ==
    StartsWithHeading =>
        /\ Len(sOut.chapters) = Len(sOut.matches)
        /\ \A i \in DOMAIN sOut.chapters :
              /\ sOut.chapters[i].title = sOut.matches[i].title
              /\ sOut.chapters[i].content =
                     Trim(SubSeq(sText, BodyStart(i) + 1, NextHeadingStart(i)))
        /\ \A i \in 1..(Len(sOut.matches) - 1) :
              sOut.matches[i].matchStart < sOut.matches[i + 1].matchStart
        /\ sText = ExampleText =>
              /\ Len(sOut.chapters) = 2
              /\ sOut.chapters[1].title = <<"K", " ", "1", ":", " ", "a">>
              /\ sOut.chapters[2].title = <<"K", " ", "2", ":", " ", "b">>
              /\ sOut.chapters[1].content = <<"a", " ", "b", ".">>

\* C8 witness: the example text, split
C8_Witness ==
    /\ StartsWithHeading
    /\ sText = ExampleText
    /\ Len(sOut.chapters) = 2

----------------------------------------------------------------------------
(* Properties of the import, checked under Spec *)

Settled == outcome.kind # "none"
Resolved == outcome.kind = "resolved"
Rejected == outcome.kind = "rejected"

\* the spine positions whose content file decodes to a chapter, ascending
OkUnits == SortAscending({j \in DOMAIN file.spine : file.spine[j].st = "ok"})

\* the pages that decode, as a sequence of their texts in page order
PageTexts == [j \in DOMAIN file.pages |-> file.pages[j].text]

\* the archive opens and holds the container pointer, the package
\* description and a spine
PackageValid ==
    /\ file.kind = "epub"
    /\ file.zipOk
    /\ file.container = "ok"
    /\ file.opf = "ok"
    /\ Len(file.spine) > 0

\* C1 (as stated): a parseFile that settles with the signal raised rejects
\* with Error('Aborted')
C1_AbortedAlwaysRejects ==
    (Settled /\ outcome.aborted) => (Rejected /\ outcome.error = ABORTED)

\* C1: the state that refutes it: the signal was raised while the last
\* batch of an EPUB was in flight and parseFile resolved with a result
C1_Witness ==
    /\ file.kind = "epub"
    /\ Resolved
    /\ outcome.aborted
    /\ Len(outcome.result.chapters) > 0

\* C3: the assembled output follows the original index: the chapters of an
\* EPUB are its decodable spine entries in spine order, and the chapters of
\* a PDF are the split of its pages joined in page order, whatever the order
\* in which the promises of a batch settled
C3_FanInByIndex ==
    /\ (Resolved /\ file.kind = "epub") =>
           Contents(outcome.result.chapters) =
               [k \in DOMAIN OkUnits |-> <<"text", OkUnits[k]>>]
    /\ (Resolved /\ file.kind = "pdf") =>
           outcome.result.chapters =
               SplitIntoChapters(JoinPages(PageTexts), FALSE).chapters
    /\ pc = "pdf_batch" => pagesText = SubSeq(PageTexts, 1, batchStart)

\* C3 witness: an EPUB import resolved with the chapters of a batch whose
\* second entry settled before its first
C3_Witness ==
    /\ Resolved
    /\ file.kind = "epub"
    /\ Len(completionOrder) = 2
    /\ completionOrder[1] > completionOrder[2]
    /\ \A k \in 1..2 : \E i \in DOMAIN outcome.result.chapters :
          outcome.result.chapters[i].content = <<"text", completionOrder[k]>>

\* C4 (as stated): onProgress is never called with the signal raised
C4_NoProgressAfterAbort ==
    \A k \in DOMAIN progressLog : ~progressLog[k].late

\* C4: the state that refutes it: an EPUB import cancelled during a batch
\* that is not the last one has rejected with 'Aborted' after a progress
\* call made with the signal raised
C4_Witness ==
    /\ file.kind = "epub"
    /\ Rejected
    /\ outcome.error = ABORTED
    /\ \E k \in DOMAIN progressLog : progressLog[k].late

\* C5: the percent values handed to onProgress over a run never decrease
\* and each is an integer of 0..100
C5_ProgressMonotone ==
    \A k \in DOMAIN progressLog :
        /\ progressLog[k].percent \in 0..100
        /\ k > 1 => progressLog[k - 1].percent <= progressLog[k].percent

\* C5 witness: a PDF of two batches imported to the end, the progress of
\* the second batch strictly between 0 and 50
C5_Witness ==
    /\ Resolved
    /\ file.kind = "pdf"
    /\ Len(file.pages) > BATCH_SIZE
    /\ \E k \in DOMAIN progressLog :
          progressLog[k].percent > 0 /\ progressLog[k].percent < 50
    /\ progressLog[Len(progressLog)].percent = 100

\* C7: the chapter records built from a result carry order = i for the i-th
\* chapter (0-based), the stored TOC lists them in that order, and every
\* stored chapter is the TOC entry of its order
C7_OrderIsIndex ==
    /\ \A i \in DOMAIN newChapters :
          /\ newChapters[i].order = i - 1
          /\ Resolved => /\ Len(newChapters) = Len(outcome.result.chapters)
                         /\ newChapters[i].title = outcome.result.chapters[i].title
                         /\ newChapters[i].content = outcome.result.chapters[i].content
    /\ \A b \in books :
          /\ Len(b.toc) = Len(newChapters)
          /\ \A i \in DOMAIN b.toc :
                /\ b.toc[i].order = i - 1
                /\ b.toc[i].id = newChapters[i].id
                /\ b.toc[i].title = newChapters[i].title
    /\ \A c \in chapterStore :
          \E b \in books :
              /\ c.bookId = b.id
              /\ c.order + 1 \in DOMAIN b.toc
              /\ b.toc[c.order + 1].id = c.id

\* C7 witness: a book of three chapters stored to the end, in two batches
C7_Witness ==
    /\ pc = "idle"
    /\ Resolved
    /\ Len(newChapters) = 3
    /\ Cardinality(chapterStore) = 3
    /\ \E b \in books : Len(b.toc) = 3

\* C9 (as stated): in a document that opens, a unit that fails to decode is
\* left out and the import completes with the other units
C9_UnitFailureSkipped ==
    /\ ( /\ Settled
         /\ ~outcome.aborted
         /\ file.kind = "pdf"
         /\ file.openOk
         /\ \E j \in DOMAIN file.pages : file.pages[j].ok ) => Resolved
    /\ ( /\ Settled
         /\ ~outcome.aborted
         /\ PackageValid
         /\ file.nav # "badhref"
         /\ OkUnits # <<>> ) => Resolved

\* C9: the state that refutes it: a PDF that opened, with a page that
\* decodes and one that does not, rejected with the error of that page
C9_Witness ==
    /\ file.kind = "pdf"
    /\ file.openOk
    /\ \E j \in DOMAIN file.pages : file.pages[j].ok
    /\ Rejected
    /\ ~outcome.aborted
    /\ outcome.error = PAGE_ERROR

\* C10: without cancellation an EPUB whose container.xml, rootfile path or
\* OPF is missing is rejected as an invalid EPUB; a valid package whose NCX
\* is not declared or not in the archive is never rejected for it: only the
\* empty-EPUB error and a failed read of a content file can reject it, and
\* its chapters are titled from <title>, <h1>/<h2> or `Chương n`
C10_PackageFatalNcxOptional ==
    /\ ( /\ Settled
         /\ ~outcome.aborted
         /\ file.kind = "epub"
         /\ file.zipOk
         /\ (file.container # "ok" \/ file.opf # "ok") ) =>
           /\ Rejected
           /\ outcome.error \in {NO_CONTAINER, NO_ROOTFILE, NO_OPF}
    /\ ( /\ Settled
         /\ ~outcome.aborted
         /\ PackageValid
         /\ file.nav \in {"undeclared", "missing"} ) =>
           /\ Rejected => outcome.error \in {EMPTY_EPUB, READ_ERROR}
           /\ (OkUnits # <<>> /\ \A j \in DOMAIN file.spine :
                                    file.spine[j].st # "readerr") => Resolved
           /\ Resolved =>
                 \A i \in DOMAIN outcome.result.chapters :
                     outcome.result.chapters[i].title[1] \in {"title", "h", "Chuong"}

\* C10 witness: an EPUB that declares an NCX the archive does not hold was
\* imported, one of its chapters titled `Chương n`
C10_Witness ==
    /\ Resolved
    /\ PackageValid
    /\ file.nav = "missing"
    /\ \E i \in DOMAIN outcome.result.chapters :
          outcome.result.chapters[i].title[1] = "Chuong"

\* every spine entry is dropped: not in the manifest, not in the archive, or
\* under 10 characters once converted to text
AllUnitsDropped ==
    \A j \in DOMAIN file.spine : file.spine[j].st \in {"nomanifest", "absent", "short"}

\* C11: an EPUB never resolves without a chapter, and one whose spine
\* entries are all dropped is rejected, with the empty-EPUB error unless it
\* was cancelled before the last batch
C11_EmptyEpubFatal ==
    /\ (Resolved /\ file.kind = "epub") => Len(outcome.result.chapters) >= 1
    /\ ( /\ Settled
         /\ PackageValid
         /\ file.nav # "badhref"
         /\ AllUnitsDropped ) =>
           /\ Rejected
           /\ outcome.error \in {EMPTY_EPUB, ABORTED}
           /\ ~outcome.aborted => outcome.error = EMPTY_EPUB
           /\ books = {} /\ chapterStore = {}

\* C11 witness: an EPUB of two batches, one entry too short and one absent
\* from the archive, was rejected with the empty-EPUB error
C11_Witness ==
    /\ Rejected
    /\ outcome.error = EMPTY_EPUB
    /\ PackageValid
    /\ Len(file.spine) > EPUB_BATCH
    /\ AllUnitsDropped
    /\ \E j \in DOMAIN file.spine : file.spine[j].st = "short"
    /\ \E j \in DOMAIN file.spine : file.spine[j].st = "absent"

----------------------------------------------------------------------------
(* More properties of splitIntoChapters, checked under SpecSplit *)

\* the characters that stand for letters
Letters == {"K", "X", "a", "b"}

\* where the numeral of the i-th detected heading ends
NumeralEndOf(i) == HeadingCore(sText, sOut.matches[i].matchStart).numEnd

\* C12 (as stated): a boundary is produced only where the keyword is
\* followed by a complete numeral: the numeral of a detected heading does not
\* run on into a word
C12_NumeralComplete ==
    sPc = "done" =>
        \A i \in DOMAIN sOut.matches :
            \/ NumeralEndOf(i) >= Len(sText)
            \/ CharAt(sText, NumeralEndOf(i)) \notin Letters

\* C12: the state that refutes it: the line 'Phần lớn' (keyword, blank, a
\* letter of [IVXLCDM], another letter) gave a boundary titled 'Phần l'
C12_Witness ==
    /\ sPc = "done"
    /\ sText = <<"K", " ", "X", "a">>
    /\ Len(sOut.matches) = 1
    /\ sOut.matches[1].title = <<"K", " ", "X">>
    /\ FalsePositive(sText)

----------------------------------------------------------------------------
(* Properties of the text of a page, checked under SpecPage *)

\* the k-th item in sorted order
SortedItem(k) == pItems[pOut.order[k]]

\* end-x of the k-th item in sorted order
EndX(k) == SortedItem(k).x + SortedItem(k).w

\* items k and k + 1 are on the same visual line: their baselines differ by
\* no more than 0.4 times the font height
SameLine(k) ==
    10 * Abs(SortedItem(k + 1).y - SortedItem(k).y) <= LINE_RATIO * SortedItem(k + 1).h

\* C13 (as stated): between two consecutive fragments of the same visual
\* line there is one space if the gap exceeds 0.3 times the font height and
\* nothing otherwise
C13_SpaceIffGap ==
    pPc = "done" =>
        \A k \in 1..(Len(pItems) - 1) :
            SameLine(k) =>
                pOut.parts[k + 1] =
                    IF 10 * (SortedItem(k + 1).x - EndX(k)) > SPACE_RATIO * SortedItem(k + 1).h
                    THEN " " ELSE ""

\* C13: the state that refutes it: two fragments on the baseline y = -1,
\* half a font height apart, joined without a space
C13_Witness ==
    /\ pPc = "done"
    /\ Len(pItems) = 2
    /\ SortedItem(1).y = -1 /\ SortedItem(2).y = -1
    /\ SortedItem(2).h = 10
    /\ SortedItem(2).x - EndX(1) = 5
    /\ pOut.parts[2] = ""

----------------------------------------------------------------------------
(* More properties of the import, checked under Spec *)

\* C14 (as stated): the stores are written only after parseFile resolved,
\* by one addBook call; an import that failed, or on which the signal was
\* raised while parseFile ran, writes nothing; the alert is shown for the
\* failures that are not cancellations and never for a cancelled import
C14_NoWriteWhenCancelled ==
    /\ pc \in {"add_book", "add_chapters"} => Resolved
    /\ (books # {} \/ chapterStore # {}) => Resolved
    /\ Cardinality(books) <= 1
    /\ Rejected => /\ books = {} /\ chapterStore = {}
                   /\ alertShown <=> outcome.error # ABORTED
    /\ (Settled /\ outcome.aborted) => /\ books = {} /\ chapterStore = {}
                                       /\ pc = "idle"
                                       /\ ~alertShown

\* C14: the state that refutes it: the signal was raised while parseFile
\* ran, and the import ended with the book and its chapters stored
C14_Witness ==
    /\ Resolved
    /\ outcome.aborted
    /\ pc = "idle"
    /\ books # {}
    /\ chapterStore # {}

----------------------------------------------------------------------------
(* Properties of the Reader, checked under SpecReader *)

\* the 'chapter_finished' broadcast of the service is passed to the listeners
ChapterFinishedDelivered ==
    /\ broadcasts # <<>>
    /\ Head(broadcasts) = Command("chapter_finished")
    /\ broadcasts' = Tail(broadcasts)

\* C15: when the service has finished the last paragraph of a chapter that
\* is not the last one, the Reader moves exactly one chapter forward: the
\* delivery of 'chapter_finished' raises currentChapterIndex by one and
\* arms the automatic continuation.
C15_AdvanceExactlyOne ==
    [][(ChapterFinishedDelivered /\ currentChapterIndex < bookChapters - 1)
           => /\ currentChapterIndex' = currentChapterIndex + 1
              /\ autoAdvanceRef']_vars

\* 'chapter_finished' of the first chapter was delivered while a listener of
\* an earlier commit was still registered: the Reader is two chapters
\* further, narration armed, before the next commit
C15_Witness ==
    /\ rendered.mounted
    /\ rendered.index < bookChapters - 1
    /\ autoAdvanceRef
    /\ currentChapterIndex = rendered.index + 2
    /\ \E k \in 1..Len(listeners) : ~listeners[k].current

----------------------------------------------------------------------------
(* More properties of the import, checked under Spec: cancellation *)

\* a step that starts the promises of a batch of spine entries or pages
BatchLaunched ==
    /\ pc' \in {"epub_batch", "pdf_batch"}
    /\ \/ pc \notin {"epub_batch", "pdf_batch"}
       \/ batchStart' > batchStart

\* a step that goes on to splitIntoChapters: parseFile reports 'Đang phân
\* tích chương...' and the scan of the whole text runs
ScanBegun ==
    /\ file.kind \in {"txt", "pdf"}
    /\ pc \in {"txt_read", "pdf_open", "pdf_batch"}
    /\ pc' \notin {"pdf_batch"}
    /\ Len(progressLog') > Len(progressLog)

\* C16: once the abort signal is raised no further batch of spine entries or
\* pages is launched and the scan of the full text is not begun.
C16_NoBatchNoScanAfterAbort ==
    [][aborted => (~BatchLaunched /\ ~ScanBegun)]_vars

\* a PDF of more than one batch was cancelled during its first batch: the
\* import ended with 'Aborted' and only the first batch was ever reported
C16_Witness ==
    /\ file.kind = "pdf"
    /\ Len(file.pages) > BATCH_SIZE
    /\ aborted
    /\ Rejected
    /\ outcome.error = ABORTED
    /\ Len(progressLog) = 2

----------------------------------------------------------------------------
(* Properties of the headings of splitIntoChapters, checked under SpecSplit *)

\* offset o is where a line of the text begins
LineStart(o) == o = 0 \/ (o <= Len(sText) /\ CharAt(sText, o - 1) = "\n")

\* the line beginning at o is a keyword and a numeral and nothing else
BareHeadingAt(o) ==
    /\ HeadingCore(sText, o).ok
    /\ HeadingCore(sText, o).numEnd < Len(sText)
    /\ CharAt(sText, HeadingCore(sText, o).numEnd) = "\n"

\* keyword + ' ' + numeral of the heading beginning at o
PlainTitleAt(o) ==
    <<"K", " ">> \o SubSeq(sText, HeadingCore(sText, o).numStart + 1,
                           HeadingCore(sText, o).numEnd)

\* a boundary was recorded at offset o
BoundaryAt(o) == \E i \in DOMAIN sOut.matches : sOut.matches[i].matchStart = o

\* C17: a line that is only a keyword and a numeral, immediately followed by
\* another heading line, gives two boundaries, and the title of the first is
\* keyword + ' ' + numeral with no text of the second line.
C17_SubtitleFromOwnLine ==
    sPc = "done" =>
        \A o \in 0..Len(sText) :
            (/\ LineStart(o)
             /\ BareHeadingAt(o)
             /\ HeadingCore(sText, HeadingCore(sText, o).numEnd + 1).ok)
            => /\ BoundaryAt(o)
               /\ BoundaryAt(HeadingCore(sText, o).numEnd + 1)
               /\ \A i \in DOMAIN sOut.matches :
                      sOut.matches[i].matchStart = o
                          => sOut.matches[i].title = PlainTitleAt(o)

\* 'Chapter 1' on a line of its own followed by the line 'Chapter2 The
\* Journey': one boundary, whose title holds the second line
C17_Witness ==
    /\ sPc = "done"
    /\ sText = <<"K", "1", "\n", "K", "2", " ", "b">>
    /\ Len(sOut.matches) = 1
    /\ sOut.matches[1].title = <<"K", " ", "1", ":", " ", "K", "2", " ", "b">>
    /\ Len(sOut.chapters) = 1

----------------------------------------------------------------------------
(* Properties of the prologue, checked under SpecSplit *)

\* the scan found a boundary
HasBoundary == sPc = "done" /\ Len(sOut.matches) > 0

\* the text before the first boundary
Prefix == Substring(sText, 0, sOut.matches[1].matchStart)

\* C18 (as stated): whenever the first boundary has matchStart > 0 the result
\* begins with a 'Mở đầu' chapter whose content is the text before that
\* boundary, whitespace-only prefixes included; with matchStart = 0 there is
\* no such chapter
C18_PrologueForEveryPrefix ==
    HasBoundary =>
        IF sOut.matches[1].matchStart > 0
        THEN /\ sOut.chapters[1].title = PROLOGUE_TITLE
             /\ sOut.chapters[1].content = Prefix
        ELSE sOut.chapters[1].title # PROLOGUE_TITLE

\* C18 (amended): the result begins with a 'Mở đầu' chapter exactly when the
\* text before the first boundary is not empty after trimming; its content
\* is that text trimmed, and the chapters of the boundaries follow it.  With
\* an empty or whitespace-only prefix the first chapter is the one of the
\* first boundary
C18_PrologueWhenPrefixNotBlank ==
    HasBoundary =>
        IF Trim(Prefix) # <<>>
        THEN /\ Len(sOut.chapters) = Len(sOut.matches) + 1
             /\ sOut.chapters[1] = [title |-> PROLOGUE_TITLE, content |-> Trim(Prefix)]
             /\ sOut.chapters[2].title = sOut.matches[1].title
        ELSE /\ Len(sOut.chapters) = Len(sOut.matches)
             /\ sOut.chapters[1].title = sOut.matches[1].title

\* a first boundary after a whitespace-only prefix: no 'Mở đầu' chapter
C18_Witness ==
    /\ HasBoundary
    /\ sOut.matches[1].matchStart > 0
    /\ Trim(Prefix) = <<>>
    /\ Len(sOut.chapters) = Len(sOut.matches)
    /\ sOut.chapters[1].title # PROLOGUE_TITLE

----------------------------------------------------------------------------
(* Properties of the titles, checked under SpecSplit *)

\* the match of chapterRegex that recorded boundary i: it begins at the
\* boundary, or at the newline before it
MatchOfBoundary(i) ==
    MatchAt(sText, IF sOut.matches[i].matchStart = 0 THEN 0
                   ELSE sOut.matches[i].matchStart - 1)

\* capture group 1 of that match
NumeralOfBoundary(i) ==
    Substring(sText, MatchOfBoundary(i).numStart, MatchOfBoundary(i).numEnd)

\* capture group 2 of that match, trimmed; empty when the group took no part
SubtitleOfBoundary(i) ==
    IF MatchOfBoundary(i).hasSub
    THEN Trim(Substring(sText, MatchOfBoundary(i).subStart, MatchOfBoundary(i).end))
    ELSE <<>>

\* the subtitle is not empty, ends with none of , . ! ? ; and has at most 80
\* characters
SubtitleShown(sub) ==
    /\ sub # <<>>
    /\ sub[Len(sub)] \notin {",", ".", "!", "?", ";"}
    /\ Len(sub) <= 80

\* C19: the title of a boundary is keyword + ' ' + numeral, followed by
\* ': ' + subtitle exactly when the trimmed subtitle is not empty, does not
\* end with one of , . ! ? ; and has at most 80 characters.
C19_TitleFormat ==
    sPc = "done" =>
        \A i \in DOMAIN sOut.matches :
            sOut.matches[i].title =
                IF SubtitleShown(SubtitleOfBoundary(i))
                THEN <<"K", " ">> \o NumeralOfBoundary(i) \o <<":", " ">>
                         \o SubtitleOfBoundary(i)
                ELSE <<"K", " ">> \o NumeralOfBoundary(i)

\* a heading whose subtitle has 81 characters: the title is 'Chapter 1'
C19_Witness ==
    /\ sPc = "done"
    /\ sText = LongHeading(81)
    /\ Len(sOut.matches) = 1
    /\ Len(SubtitleOfBoundary(1)) = 81
    /\ sOut.matches[1].title = <<"K", " ", "1">>

----------------------------------------------------------------------------
(* Properties of the candidates, checked under SpecSplit *)

\* the first candidate of the scan
FirstCandidate == Exec(sText, 0)

\* where its heading begins: after the newline the match may begin with
FirstCandidateStart ==
    IF CharAt(sText, FirstCandidate.index) = "\n"
    THEN FirstCandidate.index + 1 ELSE FirstCandidate.index

\* the scan has a first candidate and its subtitle is empty after trimming
BareFirstCandidate ==
    /\ sPc = "done"
    /\ FirstCandidate.ok
    /\ SubtitleOf(sText, FirstCandidate) = <<>>

\* C20 (as stated): a candidate whose subtitle is empty after trimming is
\* rejected and produces no boundary
C20_BareCandidateRejected ==
    BareFirstCandidate => ~BoundaryAt(FirstCandidateStart)

\* C20 (amended): a candidate whose subtitle is empty after trimming is kept:
\* it produces a boundary where its heading begins, titled keyword + ' ' +
\* numeral
C20_BareCandidateKept ==
    BareFirstCandidate =>
        \E i \in DOMAIN sOut.matches :
            /\ sOut.matches[i].matchStart = FirstCandidateStart
            /\ sOut.matches[i].title =
                   <<"K", " ">> \o Substring(sText, FirstCandidate.numStart,
                                             FirstCandidate.numEnd)

\* the text 'Chapter 1': one boundary, titled 'Chapter 1'
C20_Witness ==
    /\ BareFirstCandidate
    /\ sText = <<"K", " ", "1">>
    /\ Len(sOut.matches) = 1
    /\ sOut.matches[1].title = <<"K", " ", "1">>
    /\ Len(sOut.chapters) = 1

----------------------------------------------------------------------------
(* Properties of the line breaks of a page, checked under SpecPage *)

\* the baseline difference between items k and k + 1 of the sorted order
BaselineDiff(k) == Abs(SortedItem(k + 1).y - SortedItem(k).y)

\* C21: between every two consecutive fragments of the sorted order the
\* break follows from the baseline difference d and the font height h: two
\* newlines iff d > 1.4 h, one newline iff 0.4 h < d <= 1.4 h, no newline
\* otherwise, whatever the baseline of the earlier fragment.
C21_BreakFromBaselineDiff ==
    pPc = "done" =>
        \A k \in 1..(Len(pItems) - 1) :
            IF 10 * BaselineDiff(k) > PARAGRAPH_RATIO * SortedItem(k + 1).h
            THEN pOut.parts[k + 1] = "\n\n"
            ELSE IF 10 * BaselineDiff(k) > LINE_RATIO * SortedItem(k + 1).h
            THEN pOut.parts[k + 1] = "\n"
            ELSE pOut.parts[k + 1] \in {"", " "}

\* a fragment on the baseline y = -1 followed by one 19 units lower, font
\* height 10: joined without any break
C21_Witness ==
    /\ pPc = "done"
    /\ Len(pItems) = 2
    /\ SortedItem(1).y = -1
    /\ SortedItem(2).y = -20
    /\ SortedItem(2).h = 10
    /\ pOut.parts[2] = ""

----------------------------------------------------------------------------
(* Properties of the chapter titles of an EPUB, checked under Spec *)

HasHeading(u) == u.own \in {"h", "both", "longboth"}

\* the spine entry chapter k of the result was read from
SpineEntryOf(k) == outcome.result.chapters[k].content[2]

\* the title of chapter k by the priority NCX label, title element, first
\* h1/h2, 'Chuong k'; titled says which title elements count
TitleByPriority(k, titled) ==
    LET j == SpineEntryOf(k)
        u == file.spine[j]
    IN  IF file.nav = "present" /\ u.label THEN <<"ncx", j>>
        ELSE IF u.own \in titled THEN <<"title", j>>
        ELSE IF HasHeading(u) THEN <<"h", j>>
        ELSE <<"Chuong", k>>

\* C22: every chapter of a parsed EPUB is titled by strict priority: the NCX
\* label of its path, else the file's own title element, else its first
\* h1/h2, else 'Chuong N' with N the 1-based position of the chapter in the
\* result
C22_TitleByStrictPriority ==
    (Resolved /\ file.kind = "epub") =>
        \A k \in DOMAIN outcome.result.chapters :
            outcome.result.chapters[k].title =
                TitleByPriority(k, {"title", "both", "longtitle", "longboth"})

\* C22 as amended: the title element counts only when its trimmed text has
\* fewer than 100 characters; a longer one is passed over for the heading
\* or the synthesized title
C22_TitleByPriorityShortTitle ==
    (Resolved /\ file.kind = "epub") =>
        \A k \in DOMAIN outcome.result.chapters :
            outcome.result.chapters[k].title = TitleByPriority(k, {"title", "both"})

\* C22 witness: an EPUB resolved whose first spine entry was dropped, so
\* that the chapter of a later entry with an overlong title element and no
\* heading is 'Chuong N' with N its position and not its spine index, next
\* to a chapter titled from the NCX and one titled from its title element
\* although it has a heading
C22_Witness ==
    /\ Resolved /\ file.kind = "epub"
    /\ \E k \in DOMAIN outcome.result.chapters :
          /\ file.spine[SpineEntryOf(k)].own = "longtitle"
          /\ SpineEntryOf(k) > k
          /\ outcome.result.chapters[k].title = <<"Chuong", k>>
    /\ \E k \in DOMAIN outcome.result.chapters :
          outcome.result.chapters[k].title[1] \in {"ncx", "title"}

----------------------------------------------------------------------------
(* Properties of the paused service, checked under SpecReader *)

\* C23: a service that is paused, and stays paused over a step, does not
\* start speaking a paragraph in that step: no tts.speak between a pause
\* and the next resume or setParagraphs
C23_NoSpeakWhilePaused ==
    [][(service.isPaused /\ service'.isPaused) =>
           (service'.utterance = -1 \/ service'.utterance = service.utterance)]_vars

\* C23 witness: the service is paused and its engine is speaking a paragraph
C23_Witness ==
    /\ service.alive /\ service.isPlaying /\ service.isPaused
    /\ service.ttsReady /\ ~service.pendingSpeak
    /\ service.utterance >= 0

----------------------------------------------------------------------------
(* Properties of the chapter index of the Reader, checked under SpecReader *)

\* C24: whatever next, previous and table-of-contents taps and whatever
\* 'next', 'prev' and 'chapter_finished' commands were handled, several of
\* them before a re-render included, currentChapterIndex is an index of
\* chapters
C24_ChapterIndexInRange ==
    currentChapterIndex >= 0 /\ currentChapterIndex <= bookChapters - 1

\* C24 witness: with a single listener registered, whose commit showed the
\* chapter before the last one, commands handled before the next commit
\* left currentChapterIndex past the last chapter
C24_Witness ==
    /\ rendered.mounted
    /\ Len(listeners) = 1
    /\ listeners[1].index = bookChapters - 2
    /\ rendered.index = bookChapters - 2
    /\ currentChapterIndex = bookChapters

----------------------------------------------------------------------------
(* Properties of the listeners of the Reader, checked under SpecReader *)

\* C25: at any time at most one 'ttsCommand' listener is registered with
\* the plugin, also when the listener effect was cleaned up before the
\* promise of addListener resolved
C25_AtMostOneListener ==
    Len(listeners) <= 1

\* C25 witness: the listener of an earlier commit, whose handle had not
\* arrived when the effect was cleaned up, is registered next to the
\* listener of the last commit
C25_Witness ==
    /\ Len(listeners) = 2
    /\ ~listeners[1].current /\ ~listeners[1].resolved
    /\ listeners[2].current

----------------------------------------------------------------------------
(* Properties of the end of the book, checked under SpecReader *)

\* the setParagraphs intents among its
SetParagraphsIn(its) == {k \in DOMAIN its : its[k].action = "setParagraphs"}

\* C26: once 'chapter_finished' was handled in the last chapter, the Reader
\* sends no setParagraphs in any step but the tap on play, whatever the user
\* does in between and whatever chapters finish loading
C26_StoppedAfterLastChapter ==
    [][(finishedLast /\ finishedLast') =>
           Cardinality(SetParagraphsIn(intents')) <= Cardinality(SetParagraphsIn(intents))]_vars

\* C26 witness: after 'chapter_finished' in the last chapter, with no tap on
\* play since, the auto-advance effect has sent setParagraphs and the Reader
\* shows narration as running
C26_Witness ==
    /\ finishedLast
    /\ currentChapterIndex = bookChapters - 1
    /\ isSpeaking /\ ~autoAdvanceRef
    /\ SetParagraphsIn(intents) # {}

----------------------------------------------------------------------------
(* Properties of a chapter handed to the service, checked under SpecServiceFair *)

ChapterFinishedBroadcast ==
    \E k \in DOMAIN broadcasts : broadcasts[k] = Command("chapter_finished")

CurrentIndexValid ==
    service.currentIndex >= 0 /\ service.currentIndex < service.paragraphs

\* C27: once the service has taken a setParagraphs with a non-empty list, for
\* any startIndex the plugin passes on, it goes on to broadcast
\* 'chapter_finished', and as long as it is playing currentIndex is an index
\* of paragraphs
C27_ChapterFinishesFromAnyStart ==
    /\ [](service.isPlaying => CurrentIndexValid)
    /\ (service.isPlaying ~> ChapterFinishedBroadcast)

\* C27 witness: the service took setParagraphs with startIndex equal to the
\* number of paragraphs: it is playing, the engine is ready, nothing is
\* being spoken and nothing is left to handle
C27_Witness ==
    /\ service.isPlaying /\ ~service.isPaused
    /\ service.ttsReady /\ ~service.pendingSpeak
    /\ service.currentIndex = service.paragraphs
    /\ service.utterance = -1
    /\ intents = <<>> /\ broadcasts = <<>>

----------------------------------------------------------------------------
(* Properties of the stored books, checked under Spec *)

\* getChapter(id) finds a record
ChapterStored(id) == \E ch \in chapterStore : ch.id = id

\* C28: a book is in the store only together with all its chapters: every
\* chapter id that the TOC of a stored book lists is the id of a chapter
\* record, also between two write batches of addBook
C28_BookOnlyWithAllChapters ==
    \A b \in books : \A i \in DOMAIN b.toc : ChapterStored(b.toc[i].id)

\* C28 witness: addBook is between two write batches: the book and the
\* chapters of the first batch are stored, a chapter of its TOC is not
C28_Witness ==
    /\ pc = "add_chapters"
    /\ saveIndex = DB_BATCH_SIZE
    /\ \E b \in books :
          /\ ChapterStored(b.toc[1].id)
          /\ \E i \in DOMAIN b.toc : ~ChapterStored(b.toc[i].id)

----------------------------------------------------------------------------
(* Properties of deleteBook, checked under SpecLibrary *)

\* C29: once deleteBook(id) has completed, the store holds no book record
\* with that id, also when an updateBookProgress or updateBookCover of the
\* book had read its record before the deletion and writes it afterwards
C29_DeletedBookStaysDeleted ==
    \A id \in deleted : GetBook(id) = {}

\* C29 witness: a book whose deleteBook has completed is in the store again,
\* put back by an update that had read it before, and its chapters are gone
C29_Witness ==
    \E id \in deleted :
        /\ GetBook(id) # {}
        /\ \A b \in GetBook(id) : \A i \in DOMAIN b.toc : ~ChapterStored(b.toc[i].id)

----------------------------------------------------------------------------
(* Properties of the sort comparator, checked under SpecPage *)

\* the comparator puts a before b
Before(a, b) == CompareItems(a, b) < 0

\* C30: the comparator is a consistent order on the items of a page: when
\* it puts a before b and b before c, it puts a before c
C30_ComparatorTransitive ==
    pPc = "done" =>
        \A i, j, k \in DOMAIN pItems :
            (Before(pItems[i], pItems[j]) /\ Before(pItems[j], pItems[k]))
                => Before(pItems[i], pItems[k])

\* C30 witness: a page of three items was sorted whose comparator puts the
\* first before the second, the second before the third and the third
\* before the first, so that no order of the three agrees with it
C30_Witness ==
    /\ pPc = "done"
    /\ Len(pItems) = 3
    /\ Before(pItems[1], pItems[2])
    /\ Before(pItems[2], pItems[3])
    /\ Before(pItems[3], pItems[1])
    /\ SortedOrders(pItems) = {}

====
